---- MODULE Spec2Model ----
(***************************************************************************)
(* Model of the TON Colours backend mint core (services/mintService.js):   *)
(* the promise-chained mint queue, the wallet precheck, the spawned deploy *)
(* process with its captured output, the MINT_RESULT parser and the        *)
(* metadata URI builder (services/metadataService.js, utils/color.js).     *)
(*                                                                         *)
(* JavaScript strings are sequences of one-character strings.  Captured    *)
(* process output is a sequence of tokens: a newline, a carriage return, a *)
(* space, free text, the literal MINT_RESULT= and a JSON text.             *)
(***************************************************************************)
EXTENDS Integers, Sequences, FiniteSets, TLC

(***************************************************************************)
(* Bounds of the model.                                                    *)
(***************************************************************************)
\* the number of mintColorNft calls of one run
MaxRequests == 2
\* the number of data events the deploy processes of one run emit (Spec)
MaxEvents == 2
\* the number of data events of the one deploy process of SpecOutput
MaxChunks == 2

(***************************************************************************)
(* The state.                                                              *)
(***************************************************************************)
VARIABLES
    requests,       \* the arguments of the mintColorNft calls, in call order
    promises,       \* the promises enqueueMint created
    mintQueue,      \* the module variable mintQueue: a promise number
    callers,        \* per call: the number of the promise mintColorNft returned
    tasks,          \* per call: the position of its mint task, the reply its
                    \* address-info query got and what its precheck returned
    children,       \* per call: the deploy process its task spawned
    nextItemIndex,  \* the next_item_index counter of the collection contract
    events,         \* the number of data events so far
    startOrder,     \* the calls in the order their tasks started
    spawnOrder,     \* the calls in the order their processes were spawned
    rpcOrder,       \* the calls in the order their address-info queries were sent
    config,         \* the configuration object of config/env.js
    http,           \* the POST /mint exchanges of server.js, in arrival order
    bucket,         \* the keys of the objects in the MinIO bucket
    s3Commands,     \* the commands sent to MinIO, in the order they were sent
    uploads,        \* the uploadColorSvgToMinio calls, in call order
    sessions,       \* the Map of the session store: a session per user id
    storeCalls,     \* the calls of the session store's methods, in call order
    updates,        \* the Telegram updates the bot has handled, in order
    sent,           \* the messages the bot gave its transport, in order
    mints,          \* the mint requests of the bot that passed validation
    handlerCalls    \* the arguments of the calls of the bot's mint handler

\* the state of services/mintService.js
mintVars == <<requests, promises, mintQueue, callers, tasks, children, nextItemIndex,
              events, startOrder, spawnOrder, rpcOrder, config>>

\* the state of services/minioStorage.js and of the bucket
storageVars == <<bucket, s3Commands, uploads>>

\* the state of services/telegramSessionStore.js and telegramBotService.js
botVars == <<sessions, storeCalls, updates, sent, mints, handlerCalls>>

\* the state outside services/mintService.js
edgeVars == <<http, storageVars, botVars>>

vars == <<requests, promises, mintQueue, callers, tasks, children, nextItemIndex,
          events, startOrder, spawnOrder, rpcOrder, config, edgeVars>>

(***************************************************************************)
(* JavaScript values.                                                      *)
(***************************************************************************)
JsUndefined == [type |-> "undefined", n |-> 0, s |-> <<>>]

JsNull == [type |-> "null", n |-> 0, s |-> <<>>]

JsNumber(n) == [type |-> "number", n |-> n, s |-> <<>>]

JsString(s) == [type |-> "string", n |-> 0, s |-> s]

RECURSIVE Concat(_)
\* the concatenation of a sequence of sequences
Concat(ss) == IF ss = <<>> THEN <<>> ELSE Head(ss) \o Concat(Tail(ss))

\* sub occurs in s as a contiguous run (String.prototype.includes)
Contains(s, sub) ==
    \E i \in 0..(Len(s) - Len(sub)) : SubSeq(s, i + 1, i + Len(sub)) = sub

StartsWith(s, pre) == Len(s) >= Len(pre) /\ SubSeq(s, 1, Len(pre)) = pre

Digit(d) == CASE d = 0 -> "0" [] d = 1 -> "1" [] d = 2 -> "2" [] d = 3 -> "3"
              [] d = 4 -> "4" [] d = 5 -> "5" [] d = 6 -> "6" [] d = 7 -> "7"
              [] d = 8 -> "8" [] d = 9 -> "9"

RECURSIVE NumberToString(_)
\* String(n) of an integer: its decimal digits, after a minus sign when it
\* is below zero
NumberToString(n) ==
    IF n < 0 THEN <<"-">> \o NumberToString(0 - n)
    ELSE IF n < 10 THEN <<Digit(n)>>
    ELSE NumberToString(n \div 10) \o <<Digit(n % 10)>>

(***************************************************************************)
(* utils/color.js                                                          *)
(***************************************************************************)
HexDigits == {"0", "1", "2", "3", "4", "5", "6", "7", "8", "9",
              "a", "b", "c", "d", "e", "f", "A", "B", "C", "D", "E", "F"}

WhiteSpace == {" ", "\t", "\n", "\r"}

ToUpperChar(c) == CASE c = "a" -> "A" [] c = "b" -> "B" [] c = "c" -> "C"
                    [] c = "d" -> "D" [] c = "e" -> "E" [] c = "f" -> "F"
                    [] c = "g" -> "G" [] c = "t" -> "T" [] c = "z" -> "Z"
                    [] OTHER -> c

ToUpperCase(s) == [i \in 1..Len(s) |-> ToUpperChar(s[i])]

RECURSIVE TrimStart(_)
TrimStart(s) == IF s # <<>> /\ Head(s) \in WhiteSpace THEN TrimStart(Tail(s)) ELSE s

RECURSIVE TrimEnd(_)
TrimEnd(s) ==
    IF s # <<>> /\ s[Len(s)] \in WhiteSpace THEN TrimEnd(SubSeq(s, 1, Len(s) - 1)) ELSE s

\* String.prototype.trim
Trim(s) == TrimEnd(TrimStart(s))

\* /^#?(?:[0-9a-fA-F]{6})$/
HexColorLen == 6

HEX_COLOR_REGEX(s) ==
    LET body == IF s # <<>> /\ Head(s) = "#" THEN Tail(s) ELSE s
    IN  Len(body) = HexColorLen /\ \A i \in 1..Len(body) : body[i] \in HexDigits

\* normalizeHexColor: a thrown error is [ok |-> FALSE]
normalizeHexColor(input) ==
    IF input.type # "string"
    THEN [ok |-> FALSE, value |-> <<>>, message |-> "Color value must be a string"]
    ELSE LET trimmed == Trim(input.s)
         IN  IF ~HEX_COLOR_REGEX(trimmed)
             THEN [ok |-> FALSE, value |-> <<>>, message |-> "Invalid hex color"]
             ELSE LET hex == IF StartsWith(trimmed, <<"#">>) THEN Tail(trimmed) ELSE trimmed
                  IN  [ok |-> TRUE, value |-> <<"#">> \o ToUpperCase(hex), message |-> ""]

(***************************************************************************)
(* services/metadataService.js: buildMetadataUri                           *)
(***************************************************************************)
\* the application/x-www-form-urlencoded serializer of URLSearchParams:
\* a space becomes +, the bytes outside [A-Za-z0-9*-._] are percent-encoded
UrlEncodeChar(c) == CASE c = " " -> <<"+">>
                      [] c = ":" -> <<"%", "3", "A">>
                      [] c = "#" -> <<"%", "2", "3">>
                      [] c = "+" -> <<"%", "2", "B">>
                      [] c = "%" -> <<"%", "2", "5">>
                      [] c = "/" -> <<"%", "2", "F">>
                      [] c = "=" -> <<"%", "3", "D">>
                      [] c = "&" -> <<"%", "2", "6">>
                      [] OTHER -> <<c>>

\* a query serializer that does not encode
UrlEncode_Raw(s) == s

UrlEncode(s) == Concat([i \in 1..Len(s) |-> UrlEncodeChar(s[i])])

\* String.prototype.replace('#', ''): the first '#' is removed
RECURSIVE RemoveFirstHash(_)
RemoveFirstHash(s) ==
    IF s = <<>> THEN <<>>
    ELSE IF Head(s) = "#" THEN Tail(s) ELSE <<Head(s)>> \o RemoveFirstHash(Tail(s))

\* a JavaScript value is truthy
Truthy(v) == CASE v.type = "string" -> v.s # <<>>
               [] v.type = "number" -> v.n # 0
               [] OTHER -> FALSE

\* String(v) of a string, a non-negative integer, undefined or null
ToStringValue(v) ==
    CASE v.type = "number" -> NumberToString(v.n)
      [] v.type = "undefined" -> <<"u", "n", "d", "e", "f", "i", "n", "e", "d">>
      [] v.type = "null" -> <<"n", "u", "l", "l">>
      [] OTHER -> v.s

RECURSIVE JoinParams(_)
\* URLSearchParams.toString: name=value pairs joined by &
JoinParams(ps) ==
    IF ps = <<>> THEN <<>>
    ELSE ps[1].name \o <<"=">> \o UrlEncode(ps[1].value)
         \o (IF Len(ps) > 1 THEN <<"&">> \o JoinParams(Tail(ps)) ELSE <<>>)

\* buildMetadataUri that sets tg only for a truthy telegramUserId
buildMetadataUri_TruthyTg(baseUrl, itemIndex, color, walletAddress, telegramUserId, mintedAt) ==
    LET normalizedColor == normalizeHexColor(color)
        pColor == <<[name |-> <<"c", "o", "l", "o", "r">>,
                     value |-> RemoveFirstHash(normalizedColor.value)]>>
        pWallet == IF Truthy(walletAddress)
                   THEN <<[name |-> <<"w", "a", "l", "l", "e", "t">>, value |-> walletAddress.s]>>
                   ELSE <<>>
        pTg == IF Truthy(telegramUserId)
               THEN <<[name |-> <<"t", "g">>, value |-> ToStringValue(telegramUserId)]>>
               ELSE <<>>
        pMintedAt == IF Truthy(mintedAt)
                     THEN <<[name |-> <<"m", "i", "n", "t", "e", "d", "A", "t">>,
                             value |-> ToStringValue(mintedAt)]>>
                     ELSE <<>>
    IN  IF ~normalizedColor.ok
        THEN [ok |-> FALSE, origin |-> baseUrl, pathname |-> <<>>, search |-> <<>>]
        ELSE [ok |-> TRUE,
              origin |-> baseUrl,
              pathname |-> <<"/", "m", "e", "t", "a", "d", "a", "t", "a", "/">>
                           \o NumberToString(itemIndex),
              search |-> JoinParams(pColor \o pWallet \o pTg \o pMintedAt)]

\* buildMetadataUri: the URL as its origin, pathname and search (without the
\* leading ?); a thrown error is [ok |-> FALSE]
buildMetadataUri(baseUrl, itemIndex, color, walletAddress, telegramUserId, mintedAt) ==
    LET normalizedColor == normalizeHexColor(color)
        pColor == <<[name |-> <<"c", "o", "l", "o", "r">>,
                     value |-> RemoveFirstHash(normalizedColor.value)]>>
        pWallet == IF Truthy(walletAddress)
                   THEN <<[name |-> <<"w", "a", "l", "l", "e", "t">>, value |-> walletAddress.s]>>
                   ELSE <<>>
        pTg == IF telegramUserId.type # "undefined" /\ telegramUserId.type # "null"
               THEN <<[name |-> <<"t", "g">>, value |-> ToStringValue(telegramUserId)]>>
               ELSE <<>>
        pMintedAt == IF Truthy(mintedAt)
                     THEN <<[name |-> <<"m", "i", "n", "t", "e", "d", "A", "t">>,
                             value |-> ToStringValue(mintedAt)]>>
                     ELSE <<>>
    IN  IF ~normalizedColor.ok
        THEN [ok |-> FALSE, origin |-> baseUrl, pathname |-> <<>>, search |-> <<>>]
        ELSE [ok |-> TRUE,
              origin |-> baseUrl,
              pathname |-> <<"/", "m", "e", "t", "a", "d", "a", "t", "a", "/">>
                           \o NumberToString(itemIndex),
              search |-> JoinParams(pColor \o pWallet \o pTg \o pMintedAt)]

(***************************************************************************)
(* utils/validation.js: assertTonAddress.  A user-friendly address is, at  *)
(* the size of this model, a tag character (E: bounceable, U: not          *)
(* bounceable, k and 0: the same for test networks), the work chain Q and  *)
(* one character of account hash, in the base64 or the URL-safe alphabet.  *)
(***************************************************************************)
AddressTags == {"E", "U", "k", "0"}

AccountChars == {"A", "B", "+", "/", "-", "_"}

\* new Address(s) accepts s
IsTonAddress(s) ==
    Len(s) = 3 /\ s[1] \in AddressTags /\ s[2] = "Q" /\ s[3] \in AccountChars

\* address.toString(true, true, true): user-friendly, URL-safe, bounceable,
\* for the kind of network the parsed address was for
AddressToString(s) ==
    <<CASE s[1] = "U" -> "E" [] s[1] = "0" -> "k" [] OTHER -> s[1],
      s[2],
      CASE s[3] = "+" -> "-" [] s[3] = "/" -> "_" [] OTHER -> s[3]>>

\* assertTonAddress: a thrown error is [ok |-> FALSE]
assertTonAddress(value) ==
    IF value.type # "string" THEN [ok |-> FALSE, value |-> <<>>]
    ELSE IF ~IsTonAddress(Trim(value.s)) THEN [ok |-> FALSE, value |-> <<>>]
    ELSE [ok |-> TRUE, value |-> AddressToString(Trim(value.s))]

(***************************************************************************)
(* server.js: GET /metadata/:itemIndex                                     *)
(***************************************************************************)
RECURSIVE SplitOn(_, _, _)
\* String.prototype.split(c): cur is the piece being read
SplitOn(s, c, cur) ==
    IF s = <<>> THEN <<cur>>
    ELSE IF Head(s) = c THEN <<cur>> \o SplitOn(Tail(s), c, <<>>)
    ELSE SplitOn(Tail(s), c, Append(cur, Head(s)))

\* the character a percent escape stands for
UnescapeHex(h, l) ==
    CASE <<h, l>> = <<"3", "A">> -> <<":">>
      [] <<h, l>> = <<"2", "3">> -> <<"#">>
      [] <<h, l>> = <<"2", "B">> -> <<"+">>
      [] <<h, l>> = <<"2", "5">> -> <<"%">>
      [] <<h, l>> = <<"2", "F">> -> <<"/">>
      [] <<h, l>> = <<"3", "D">> -> <<"=">>
      [] <<h, l>> = <<"2", "6">> -> <<"&">>
      [] OTHER -> <<"%", h, l>>

RECURSIVE UrlDecode(_)
\* the decoder of the query parser: + is a space, %XX is a character
UrlDecode(s) ==
    IF s = <<>> THEN <<>>
    ELSE IF Head(s) = "+" THEN <<" ">> \o UrlDecode(Tail(s))
    ELSE IF Head(s) = "%" /\ Len(s) >= 3
         THEN UnescapeHex(s[2], s[3]) \o UrlDecode(SubSeq(s, 4, Len(s)))
    ELSE <<Head(s)>> \o UrlDecode(Tail(s))

\* the text before and after the first = of a name=value pair
PairName(pair) ==
    IF \E i \in 1..Len(pair) : pair[i] = "="
    THEN SubSeq(pair, 1, (CHOOSE i \in 1..Len(pair) :
                             pair[i] = "=" /\ \A j \in 1..(i - 1) : pair[j] # "=") - 1)
    ELSE pair

PairValue(pair) == SubSeq(pair, Len(PairName(pair)) + 2, Len(pair))

\* req.query[name] of a query string whose names are all different:
\* undefined when no pair has the name
QueryValue(search, name) ==
    LET pairs == SelectSeq(SplitOn(search, "&", <<>>), LAMBDA pair : pair # <<>>)
        named == SelectSeq(pairs, LAMBDA pair : UrlDecode(PairName(pair)) = name)
    IN  IF named = <<>> THEN JsUndefined ELSE JsString(UrlDecode(PairValue(named[1])))

\* the names of the parameters of a query string
QueryNames(search) ==
    LET pairs == SelectSeq(SplitOn(search, "&", <<>>), LAMBDA pair : pair # <<>>)
    IN  {UrlDecode(PairName(pairs[i])) : i \in 1..Len(pairs)}

Digits == {"0", "1", "2", "3", "4", "5", "6", "7", "8", "9"}

DigitValue(c) == CHOOSE d \in 0..9 : Digit(d) = c

RECURSIVE DigitsToNumber(_)
DigitsToNumber(s) ==
    IF s = <<>> THEN 0 ELSE DigitsToNumber(SubSeq(s, 1, Len(s) - 1)) * 10 + DigitValue(s[Len(s)])

\* Number(s) of a string: 0 for white space, the value of decimal digits,
\* and NaN ([type |-> "NaN"]) for any other text of the model
ToNumber(s) ==
    IF Trim(s) = <<>> THEN JsNumber(0)
    ELSE IF \A i \in 1..Len(Trim(s)) : Trim(s)[i] \in Digits
    THEN JsNumber(DigitsToNumber(Trim(s)))
    ELSE [type |-> "NaN", n |-> 0, s |-> <<>>]

MetadataPath == <<"/", "m", "e", "t", "a", "d", "a", "t", "a", "/">>

BadRequest == [status |-> 400, itemIndex |-> <<>>, color |-> <<>>,
               walletAddress |-> JsUndefined, telegramUserId |-> JsUndefined,
               mintedAt |-> JsUndefined]

\* the handler of GET /metadata/:itemIndex for a request of the given path
\* and query string: status 400, or status 200 and the arguments it gives
\* buildMetadata; 404 when the route does not match
metadataHandler(pathname, search) ==
    LET itemIndex == SubSeq(pathname, Len(MetadataPath) + 1, Len(pathname))
        color == QueryValue(search, <<"c", "o", "l", "o", "r">>)
        wallet == QueryValue(search, <<"w", "a", "l", "l", "e", "t">>)
        tg == QueryValue(search, <<"t", "g">>)
        mintedAt == QueryValue(search, <<"m", "i", "n", "t", "e", "d", "A", "t">>)
        colorHex == normalizeHexColor(JsString(
                        <<"#">> \o (IF color.s # <<>> /\ Head(color.s) = "#"
                                    THEN Tail(color.s) ELSE color.s)))
    IN  IF ~StartsWith(pathname, MetadataPath) \/ itemIndex = <<>>
           \/ (\E i \in 1..Len(itemIndex) : itemIndex[i] = "/")
        THEN [BadRequest EXCEPT !.status = 404]
        ELSE IF ~Truthy(color) THEN BadRequest
        ELSE IF Truthy(wallet) /\ ~assertTonAddress(wallet).ok THEN BadRequest
        ELSE IF tg.type # "undefined" /\ ToNumber(tg.s).type = "NaN" THEN BadRequest
        ELSE IF ~colorHex.ok THEN BadRequest
        ELSE [status |-> 200,
              itemIndex |-> itemIndex,
              color |-> colorHex.value,
              walletAddress |-> IF Truthy(wallet)
                                THEN JsString(assertTonAddress(wallet).value)
                                ELSE JsUndefined,
              telegramUserId |-> IF tg.type # "undefined" THEN ToNumber(tg.s)
                                 ELSE JsUndefined,
              mintedAt |-> mintedAt]

(***************************************************************************)
(* Captured process output and the result protocol (parseMintResult).      *)
(***************************************************************************)
Nl == [t |-> "nl", json |-> JsUndefined]

Cr == [t |-> "cr", json |-> JsUndefined]

Sp == [t |-> "sp", json |-> JsUndefined]

\* free text that is neither white space nor a JSON text nor the prefix; it
\* may mention MINT_RESULT= anywhere but at its start
TextTok == [t |-> "text", json |-> JsUndefined]

\* the literal MINT_RESULT=
RESULT_PREFIX == [t |-> "prefix", json |-> JsUndefined]

\* a well-formed JSON text and the value JSON.parse gives for it
JsonTok(v) == [t |-> "json", json |-> v]

\* the object {"itemIndex": ..., "nftAddress": ..., "mintedAt": ...}; an absent
\* member is JsUndefined
JsonObject(itemIndex, nftAddress, mintedAt) ==
    [type |-> "object", itemIndex |-> itemIndex, nftAddress |-> nftAddress,
     mintedAt |-> mintedAt]

RECURSIVE SplitLines(_, _)
\* String.prototype.split(/\r?\n/): cur is the line being read
SplitLines(toks, cur) ==
    IF toks = <<>> THEN <<cur>>
    ELSE IF Head(toks).t = "nl"
         THEN LET line == IF cur # <<>> /\ cur[Len(cur)].t = "cr"
                          THEN SubSeq(cur, 1, Len(cur) - 1) ELSE cur
              IN  <<line>> \o SplitLines(Tail(toks), <<>>)
         ELSE SplitLines(Tail(toks), Append(cur, Head(toks)))

IsSpaceTok(tok) == tok.t \in {"sp", "cr", "nl"}

RECURSIVE TrimStartToks(_)
TrimStartToks(l) == IF l # <<>> /\ IsSpaceTok(Head(l)) THEN TrimStartToks(Tail(l)) ELSE l

RECURSIVE TrimEndToks(_)
TrimEndToks(l) ==
    IF l # <<>> /\ IsSpaceTok(l[Len(l)]) THEN TrimEndToks(SubSeq(l, 1, Len(l) - 1)) ELSE l

\* line.trim()
TrimLine(l) == TrimEndToks(TrimStartToks(l))

\* JSON.parse of the text after the prefix: white space around the one JSON
\* text is accepted, anything else is a SyntaxError
JsonParse(toks) ==
    LET core == SelectSeq(toks, LAMBDA tok : ~IsSpaceTok(tok))
    IN  IF Len(core) = 1 /\ core[1].t = "json"
        THEN [ok |-> TRUE, value |-> core[1].json]
        ELSE [ok |-> FALSE, value |-> JsUndefined]

\* the loop of parseMintResult returning undefined, instead of throwing, when
\* no line matches
RECURSIVE ScanLines_NoThrow(_, _)
ScanLines_NoThrow(lines, i) ==
    IF i = 0
    THEN [ok |-> TRUE, value |-> JsUndefined, message |-> ""]
    ELSE IF lines[i][1] = RESULT_PREFIX
         THEN LET parsed == JsonParse(Tail(lines[i]))
              IN  IF parsed.ok
                  THEN [ok |-> TRUE, value |-> parsed.value, message |-> ""]
                  ELSE [ok |-> FALSE, value |-> JsUndefined,
                        message |-> "Mint script produced an invalid JSON payload"]
         ELSE ScanLines_NoThrow(lines, i - 1)

RECURSIVE ScanForward(_, _)
\* a loop over the lines from line j up to the last line
ScanForward(lines, j) ==
    IF j > Len(lines)
    THEN [ok |-> FALSE, value |-> JsUndefined,
          message |-> "Mint script did not produce a result payload"]
    ELSE IF lines[j][1] = RESULT_PREFIX
         THEN LET parsed == JsonParse(Tail(lines[j]))
              IN  IF parsed.ok
                  THEN [ok |-> TRUE, value |-> parsed.value, message |-> ""]
                  ELSE [ok |-> FALSE, value |-> JsUndefined,
                        message |-> "Mint script produced an invalid JSON payload"]
         ELSE ScanForward(lines, j + 1)

\* the loop of parseMintResult running from the first line to the last
ScanLines_FirstMatch(lines, i) == ScanForward(lines, 1)

RECURSIVE ScanLines_SkipInvalid(_, _)
\* the loop of parseMintResult going on to the earlier lines when the JSON of
\* a matching line does not parse
ScanLines_SkipInvalid(lines, i) ==
    IF i = 0
    THEN [ok |-> FALSE, value |-> JsUndefined,
          message |-> "Mint script did not produce a result payload"]
    ELSE IF lines[i][1] = RESULT_PREFIX /\ JsonParse(Tail(lines[i])).ok
         THEN [ok |-> TRUE, value |-> JsonParse(Tail(lines[i])).value, message |-> ""]
         ELSE ScanLines_SkipInvalid(lines, i - 1)

RECURSIVE ScanLines(_, _)
\* the loop of parseMintResult, from line i down to line 1
ScanLines(lines, i) ==
    IF i = 0
    THEN [ok |-> FALSE, value |-> JsUndefined,
          message |-> "Mint script did not produce a result payload"]
    ELSE IF lines[i][1] = RESULT_PREFIX
         THEN LET parsed == JsonParse(Tail(lines[i]))
              IN  IF parsed.ok
                  THEN [ok |-> TRUE, value |-> parsed.value, message |-> ""]
                  ELSE [ok |-> FALSE, value |-> JsUndefined,
                        message |-> "Mint script produced an invalid JSON payload"]
         ELSE ScanLines(lines, i - 1)

\* parseMintResult(stdout): a thrown error is [ok |-> FALSE]
parseMintResult(stdout) ==
    LET split == SplitLines(stdout, <<>>)
        trimmed == [i \in 1..Len(split) |-> TrimLine(split[i])]
        lines == SelectSeq(trimmed, LAMBDA l : l # <<>>)
    IN  ScanLines(lines, Len(lines))

(***************************************************************************)
(* Errors and outcomes.                                                    *)
(***************************************************************************)
\* an Error object: its message, the code and statusCode of a
\* MintPreconditionError, and the stdout/stderr properties when they are set
ErrorValue(message, code, statusCode, hasOutput, stdout, stderr) ==
    [kind |-> "error", message |-> message, code |-> code, statusCode |-> statusCode,
     hasOutput |-> hasOutput, stdout |-> stdout, stderr |-> stderr]

PlainError(message) == ErrorValue(message, "", 0, FALSE, <<>>, <<>>)

MintPreconditionError(message, code, statusCode) ==
    ErrorValue(message, code, statusCode, FALSE, <<>>, <<>>)

(***************************************************************************)
(* config/env.js and the constants of services/mintService.js              *)
(***************************************************************************)
MainnetEndpoint == "https://toncenter.com/api/v2/jsonRPC"

TestnetEndpoint == "https://testnet.toncenter.com/api/v2/jsonRPC"

\* an endpoint that is no default of either network
OtherEndpoint == "https://ton.example/jsonRPC"

DEFAULT_TONCENTER_ENDPOINTS == [mainnet |-> MainnetEndpoint, testnet |-> TestnetEndpoint]

\* the number of words env.js requires of MINT_WALLET_MNEMONIC
MnemonicLength == 24

\* DEFAULT_TEST_MNEMONIC, split into its words
TestMnemonicWords == [i \in 1..MnemonicLength |-> "abandon"]

OtherMnemonicWords == [i \in 1..MnemonicLength |-> IF i % 2 = 0 THEN "zoo" ELSE "wrong"]

\* DEFAULT_TEST_COLLECTION_ADDRESS
CollectionAddress == "EQAAAAAAAAAAAAAAAAAAAAAAAAAAAAAAAAAAAAAAAAAAAM9c"

\* config.backendBaseUrl
BackendBaseUrl == "http://localhost:3000"

RECURSIVE Join(_, _)
\* Array.prototype.join
Join(words, sep) ==
    IF words = <<>> THEN ""
    ELSE IF Len(words) = 1 THEN words[1]
    ELSE words[1] \o sep \o Join(Tail(words), sep)

\* the bucket when MINIO_BUCKET is unset ('ton-colours')
DefaultBucket == <<"t", "c">>

\* the configuration env.js exports for a process environment that sets the
\* network, the endpoint, the API key (JsUndefined when unset), the mnemonic,
\* the wallet version and the mint value (in nanotons), together with the
\* process environment itself, which every child inherits
Config(network, endpoint, apiKey, words, version, mintValueNano, processEnv) ==
    [tonNetwork |-> network,
     tonEndpoint |-> endpoint,
     tonApiKey |-> apiKey,
     mnemonicWords |-> words,
     collectionAddress |-> CollectionAddress,
     walletVersion |-> version,
     collectionMintValueTon |-> mintValueNano,
     backendBaseUrl |-> BackendBaseUrl,
     minioEndpoint |-> <<>>,
     minioAccessKey |-> "",
     minioSecretKey |-> "",
     minioBucket |-> DefaultBucket,
     minioPublicUrl |-> <<>>,
     telegramSecretToken |-> JsUndefined,
     processEnv |-> processEnv]

\* process.env of the server: the variables env.js read the mnemonic and the
\* network from, and NFT_ITEM_MINT_COMMAND when it is set
ProcessEnv(words, rawNetwork) ==
    [MINT_WALLET_MNEMONIC |-> Join(words, " "), TON_NETWORK |-> rawNetwork]

ProcessEnvWithCommand(words, rawNetwork, command) ==
    [MINT_WALLET_MNEMONIC |-> Join(words, " "), TON_NETWORK |-> rawNetwork,
     NFT_ITEM_MINT_COMMAND |-> command]

\* the configuration of tests/setup.js: testnet on its default endpoint
DefaultConfig ==
    Config("testnet", TestnetEndpoint, JsUndefined, TestMnemonicWords, "v4", 9000000,
           ProcessEnv(TestMnemonicWords, "testnet"))

Configs ==
    {DefaultConfig,
     Config("mainnet", MainnetEndpoint, JsString("api-key"), OtherMnemonicWords, "v4", 9000000,
            ProcessEnv(OtherMnemonicWords, "MAINNET")),
     Config("testnet", OtherEndpoint, JsUndefined, OtherMnemonicWords, "v5r1", 9000000,
            ProcessEnv(OtherMnemonicWords, "testnet")),
     Config("mainnet", OtherEndpoint, JsString("api-key"), TestMnemonicWords, "v3r2", 1000000000,
            ProcessEnv(TestMnemonicWords, "mainnet")),
     Config("testnet", MainnetEndpoint, JsUndefined, TestMnemonicWords, "v4", 9000000,
            ProcessEnvWithCommand(TestMnemonicWords, "testnet", "blueprint-runner"))}

\* SCRIPT_COMMAND
SCRIPT_COMMAND ==
    IF "NFT_ITEM_MINT_COMMAND" \in DOMAIN config.processEnv
    THEN config.processEnv.NFT_ITEM_MINT_COMMAND ELSE "npx"

\* buildScriptArgs that knows the default endpoint of mainnet only
buildScriptArgs_MainnetDefaultOnly ==
    LET networkFlag == IF config.tonNetwork = "testnet" THEN "--testnet" ELSE "--mainnet"
        custom == IF config.tonEndpoint = MainnetEndpoint THEN <<>>
                  ELSE <<"--custom", config.tonEndpoint,
                         "--custom-type", config.tonNetwork,
                         "--custom-version", "v2">>
                       \o (IF config.tonApiKey.type = "string" /\ config.tonApiKey.s # ""
                           THEN <<"--custom-key", config.tonApiKey.s>> ELSE <<>>)
    IN  <<"blueprint", "run", networkFlag>> \o custom \o <<"--tonconnect", "deployNftItem">>

\* buildScriptArgs that hands the mnemonic to the script as an argument
buildScriptArgs_MnemonicArgument ==
    LET networkFlag == IF config.tonNetwork = "testnet" THEN "--testnet" ELSE "--mainnet"
        custom == IF /\ config.tonNetwork \in DOMAIN DEFAULT_TONCENTER_ENDPOINTS
                     /\ config.tonEndpoint = DEFAULT_TONCENTER_ENDPOINTS[config.tonNetwork]
                  THEN <<>>
                  ELSE <<"--custom", config.tonEndpoint,
                         "--custom-type", config.tonNetwork,
                         "--custom-version", "v2">>
                       \o (IF config.tonApiKey.type = "string" /\ config.tonApiKey.s # ""
                           THEN <<"--custom-key", config.tonApiKey.s>> ELSE <<>>)
    IN  <<"blueprint", "run", networkFlag>> \o custom
        \o <<"--mnemonic", Join(config.mnemonicWords, " "), "deployNftItem">>

\* buildScriptArgs
buildScriptArgs ==
    LET networkFlag == IF config.tonNetwork = "testnet" THEN "--testnet" ELSE "--mainnet"
        endpointMatchesDefault ==
            /\ config.tonNetwork \in DOMAIN DEFAULT_TONCENTER_ENDPOINTS
            /\ config.tonEndpoint = DEFAULT_TONCENTER_ENDPOINTS[config.tonNetwork]
        custom == IF endpointMatchesDefault THEN <<>>
                  ELSE <<"--custom", config.tonEndpoint,
                         "--custom-type", config.tonNetwork,
                         "--custom-version", "v2">>
                       \o (IF config.tonApiKey.type = "string" /\ config.tonApiKey.s # ""
                           THEN <<"--custom-key", config.tonApiKey.s>> ELSE <<>>)
    IN  <<"blueprint", "run", networkFlag>> \o custom \o <<"--tonconnect", "deployNftItem">>

(***************************************************************************)
(* formatWalletAddress                                                     *)
(***************************************************************************)
\* the value wallet.getAddress() gives: a string, or an object whose
\* toString accepts some of the three calling conventions, or nothing usable
AddressKinds == {"string", "optionsOk", "positionalOk", "bareOk", "allThrow", "noToString"}

\* the three ways formatWalletAddress calls address.toString, in its order
Encodings == <<"options", "positional", "bare">>

\* address.toString called in the given way throws: a call of what is no
\* function throws a TypeError
ToStringThrows(address, encoding) ==
    CASE address = "optionsOk" -> FALSE
      [] address = "positionalOk" -> encoding = "options"
      [] address = "bareOk" -> encoding \in {"options", "positional"}
      [] OTHER -> TRUE

\* what the call returns: the text of the encoding, toString() without
\* arguments taking the flags of the address itself; a string is kept as given
AddressText(encoding, bounceable) ==
    [encoding |-> encoding,
     bounceable |-> IF encoding \in {"bare", "asGiven"} THEN "default"
                    ELSE IF bounceable THEN "true" ELSE "false"]

\* formatWalletAddress that asks for the bare default first
formatWalletAddress_BareFirst(address, bounceable) ==
    IF address = "string"
    THEN [ok |-> TRUE, error |-> JsUndefined,
          value |-> AddressText("asGiven", bounceable), tried |-> <<>>]
    ELSE IF address = "noToString"
    THEN [ok |-> FALSE,
          error |-> MintPreconditionError(
              "Unable to derive minter wallet address representation",
              "MINTER_WALLET_ADDRESS_FORMAT", 500),
          value |-> JsUndefined, tried |-> <<>>]
    ELSE IF ~ToStringThrows(address, "bare")
    THEN [ok |-> TRUE, error |-> JsUndefined,
          value |-> AddressText("bare", bounceable), tried |-> <<"bare">>]
    ELSE IF ~ToStringThrows(address, "positional")
    THEN [ok |-> TRUE, error |-> JsUndefined,
          value |-> AddressText("positional", bounceable),
          tried |-> <<"bare", "positional">>]
    ELSE IF ~ToStringThrows(address, "options")
    THEN [ok |-> TRUE, error |-> JsUndefined,
          value |-> AddressText("options", bounceable),
          tried |-> <<"bare", "positional", "options">>]
    ELSE [ok |-> FALSE,
          error |-> MintPreconditionError(
              "Failed to format minter wallet address",
              "MINTER_WALLET_ADDRESS_FORMAT", 500),
          value |-> JsUndefined, tried |-> <<"bare", "positional", "options">>]

\* formatWalletAddress (lines 55-96): the text it returns, or the error it
\* throws, and the calls of address.toString it made
formatWalletAddress(address, bounceable) ==
    IF address = "string"
    THEN [ok |-> TRUE, error |-> JsUndefined,
          value |-> AddressText("asGiven", bounceable), tried |-> <<>>]
    ELSE IF address = "noToString"
    THEN [ok |-> FALSE,
          error |-> MintPreconditionError(
              "Unable to derive minter wallet address representation",
              "MINTER_WALLET_ADDRESS_FORMAT", 500),
          value |-> JsUndefined, tried |-> <<>>]
    ELSE IF ~ToStringThrows(address, "options")
    THEN [ok |-> TRUE, error |-> JsUndefined,
          value |-> AddressText("options", bounceable), tried |-> <<"options">>]
    ELSE IF ~ToStringThrows(address, "positional")
    THEN [ok |-> TRUE, error |-> JsUndefined,
          value |-> AddressText("positional", bounceable),
          tried |-> <<"options", "positional">>]
    ELSE IF ~ToStringThrows(address, "bare")
    THEN [ok |-> TRUE, error |-> JsUndefined,
          value |-> AddressText("bare", bounceable),
          tried |-> <<"options", "positional", "bare">>]
    ELSE [ok |-> FALSE,
          error |-> MintPreconditionError(
              "Failed to format minter wallet address",
              "MINTER_WALLET_ADDRESS_FORMAT", 500),
          value |-> JsUndefined, tried |-> <<"options", "positional", "bare">>]

(***************************************************************************)
(* The wallet precheck: resolveMinterWalletStatus, toNano and               *)
(* ensureMinterWalletReady.  Amounts are integers of nanotons.             *)
(***************************************************************************)
\* the replies of the address-info query: an error, or the wallet's info with
\* its balance and its state ("absent" when the info carries none)
RpcReplies == {[ok |-> FALSE, balance |-> 0, state |-> "absent"],
               [ok |-> TRUE, balance |-> 0, state |-> "active"],
               [ok |-> TRUE, balance |-> 2000000000, state |-> "frozen"],
               [ok |-> TRUE, balance |-> 2000000000, state |-> "active"],
               [ok |-> TRUE, balance |-> 28999999, state |-> "uninitialized"],
               [ok |-> TRUE, balance |-> 29000000, state |-> "uninitialized"],
               [ok |-> TRUE, balance |-> 1099999999, state |-> "uninitialized"],
               [ok |-> TRUE, balance |-> 0, state |-> "absent"]}

\* the replies of Spec: an error, or a funded active wallet
QueueRpcReplies == {r \in RpcReplies : ~r.ok \/ (r.balance > 0 /\ r.state = "active")}

\* toNano: a thrown error is [ok |-> FALSE]
toNano(valueNano) ==
    IF valueNano < 0
    THEN [ok |-> FALSE, value |-> 0,
          error |-> MintPreconditionError("Invalid TON amount configured",
                                          "INVALID_TON_AMOUNT", 500)]
    ELSE [ok |-> TRUE, value |-> valueNano, error |-> JsUndefined]

\* resolveMinterWalletStatus that takes a failed query for an empty wallet
resolveMinterWalletStatus_ErrorSwallowed(reply) ==
    [ok |-> TRUE,
     balanceNano |-> IF reply.ok THEN reply.balance ELSE 0,
     state |-> IF reply.ok /\ reply.state # "absent" THEN reply.state ELSE "unknown",
     error |-> JsUndefined]

\* lines 106-126 of resolveMinterWalletStatus, given the reply of
\* getAddressInfo: a thrown error is [ok |-> FALSE]
resolveMinterWalletStatus(reply) ==
    IF ~reply.ok
    THEN [ok |-> FALSE, balanceNano |-> 0, state |-> "unknown",
          error |-> MintPreconditionError(
                        "Failed to query minter wallet status from TON RPC",
                        "MINTER_WALLET_STATUS_UNAVAILABLE", 502)]
    ELSE [ok |-> TRUE,
          balanceNano |-> reply.balance,
          state |-> IF reply.state # "absent" THEN reply.state ELSE "unknown",
          error |-> JsUndefined]

\* the precheck that also warns of a balance equal to the required balance
PrecheckWarnings_AtMost(status) ==
    LET requiredTransfer == toNano(config.collectionMintValueTon).value
        tenth == config.collectionMintValueTon \div 10
        safetyBuffer == toNano(IF tenth > 20000000 THEN tenth ELSE 20000000).value
        requiredBalance == requiredTransfer + safetyBuffer
    IN  (IF status.balanceNano <= requiredBalance THEN <<"balance">> ELSE <<>>)
        \o (IF status.state \notin {"active", "uninitialized"} THEN <<"state">> ELSE <<>>)

\* the warnings of the precheck: a balance below requiredBalance, a state that
\* is neither active nor uninitialized
PrecheckWarnings(status) ==
    LET requiredTransfer == toNano(config.collectionMintValueTon).value
        tenth == config.collectionMintValueTon \div 10
        safetyBuffer == toNano(IF tenth > 20000000 THEN tenth ELSE 20000000).value
        requiredBalance == requiredTransfer + safetyBuffer
    IN  (IF status.balanceNano < requiredBalance THEN <<"balance">> ELSE <<>>)
        \o (IF status.state \notin {"active", "uninitialized"} THEN <<"state">> ELSE <<>>)

\* ensureMinterWalletReady that refuses a wallet with warnings
ensureMinterWalletReady_Blocking(reply) ==
    LET status == resolveMinterWalletStatus(reply)
    IN  IF ~status.ok
        THEN [ok |-> FALSE, balanceNano |-> 0, state |-> status.state, warnings |-> <<>>,
              error |-> status.error]
        ELSE IF PrecheckWarnings(status) # <<>>
        THEN [ok |-> FALSE, balanceNano |-> 0, state |-> status.state, warnings |-> <<>>,
              error |-> MintPreconditionError("Minter wallet is not ready",
                                              "MINT_PRECONDITION_FAILED", 503)]
        ELSE [ok |-> TRUE, balanceNano |-> status.balanceNano, state |-> status.state,
              warnings |-> <<>>, error |-> JsUndefined]

\* ensureMinterWalletReady, given the reply of getAddressInfo: what it
\* returns, or the error it throws ([ok |-> FALSE])
ensureMinterWalletReady(reply) ==
    LET status == resolveMinterWalletStatus(reply)
    IN  IF ~status.ok
        THEN [ok |-> FALSE, balanceNano |-> 0, state |-> status.state, warnings |-> <<>>,
              error |-> status.error]
        ELSE IF ~toNano(config.collectionMintValueTon).ok
        THEN [ok |-> FALSE, balanceNano |-> 0, state |-> status.state, warnings |-> <<>>,
              error |-> toNano(config.collectionMintValueTon).error]
        ELSE [ok |-> TRUE, balanceNano |-> status.balanceNano, state |-> status.state,
              warnings |-> PrecheckWarnings(status), error |-> JsUndefined]

(***************************************************************************)
(* runDeployScript after the close event, and the rest of the mint task.   *)
(***************************************************************************)
\* the exit states a close event reports: (code, signal)
ExitStates == {[code |-> JsNumber(0), signal |-> "null"],
               [code |-> JsNumber(1), signal |-> "null"],
               [code |-> JsNull, signal |-> "SIGTERM"]}

\* the exit states of Spec: success and failure
QueueExitStates == {e \in ExitStates : e.signal = "null"}

\* runDeployScript without the check of the exit code
runDeployScript_ExitCodeIgnored(stdout, stderr, exitState) ==
    LET parsed == parseMintResult(stdout)
    IN  IF parsed.ok
        THEN [ok |-> TRUE, result |-> parsed.value, error |-> JsUndefined]
        ELSE [ok |-> FALSE, result |-> JsUndefined, error |-> PlainError(parsed.message)]

\* runDeployScript whose abnormal-exit error does not get the stderr property
runDeployScript_StderrNotAttached(stdout, stderr, exitState) ==
    IF exitState.code # JsNumber(0)
    THEN [ok |-> FALSE, result |-> JsUndefined,
          error |-> ErrorValue("Mint script exited abnormally",
                               IF exitState.code = JsNull THEN "signal" ELSE "code",
                               0, TRUE, stdout, <<>>)]
    ELSE LET parsed == parseMintResult(stdout)
         IN  IF parsed.ok
             THEN [ok |-> TRUE, result |-> parsed.value, error |-> JsUndefined]
             ELSE [ok |-> FALSE, result |-> JsUndefined, error |-> PlainError(parsed.message)]

\* lines 242-251 of runDeployScript: a thrown error is [ok |-> FALSE]
runDeployScript(stdout, stderr, exitState) ==
    IF exitState.code # JsNumber(0)
    THEN [ok |-> FALSE, result |-> JsUndefined,
          error |-> ErrorValue("Mint script exited abnormally",
                               IF exitState.code = JsNull THEN "signal" ELSE "code",
                               0, TRUE, stdout, stderr)]
    ELSE LET parsed == parseMintResult(stdout)
         IN  IF parsed.ok
             THEN [ok |-> TRUE, result |-> parsed.value, error |-> JsUndefined]
             ELSE [ok |-> FALSE, result |-> JsUndefined, error |-> PlainError(parsed.message)]

\* result.itemIndex of a parsed payload that is not null
ItemIndexOf(result) == IF result.type = "object" THEN result.itemIndex ELSE JsUndefined

\* lines 260-296 of mintColorNft: what the task settles with once the process
\* has closed; now is the reading of the clock
mintTaskResult(request, normalizedColor, stdout, stderr, exitState, now) ==
    LET run == runDeployScript(stdout, stderr, exitState)
        result == run.result
    IN  IF ~run.ok THEN [state |-> "rejected", value |-> run.error]
        ELSE IF result.type = "null"
        THEN [state |-> "rejected",
              value |-> PlainError("TypeError: Cannot read properties of null")]
        ELSE IF ItemIndexOf(result).type # "number"
        THEN [state |-> "rejected",
              value |-> ErrorValue("Mint script result is missing a numeric itemIndex",
                                   "", 0, TRUE, stdout, stderr)]
        ELSE LET itemIndex == result.itemIndex.n
                 mintedAt == IF result.mintedAt.type = "string" THEN result.mintedAt.s ELSE now
                 metadataUri == buildMetadataUri(config.backendBaseUrl, itemIndex,
                                                 JsString(normalizedColor),
                                                 request.walletAddress,
                                                 request.telegramUserId,
                                                 JsString(mintedAt))
             IN  [state |-> "fulfilled",
                  value |-> [kind |-> "outcome",
                             itemIndex |-> itemIndex,
                             metadataUri |-> metadataUri,
                             nftAddress |-> IF result.nftAddress.type = "string"
                                            THEN result.nftAddress ELSE JsNull,
                             color |-> normalizedColor,
                             ownerAddress |-> request.walletAddress,
                             mintedAt |-> mintedAt]]

(***************************************************************************)
(* The mint queue (enqueueMint).                                           *)
(***************************************************************************)
\* the promise p.then(onFulfilled, onRejected); a handler is "task" (the mint
\* task of request `task`), "undefined" (() => undefined) or "none" (absent)
ThenPromise(src, onFulfilled, onRejected, task) ==
    [src |-> src, onFulfilled |-> onFulfilled, onRejected |-> onRejected, task |-> task,
     state |-> "pending", value |-> JsUndefined]

\* enqueueMint without line 187: mintQueue is never advanced, so every task
\* is chained on the initial promise
enqueueMint_QueueNotAdvanced(mq, n, task) ==
    [created |-> <<ThenPromise(mq, "task", "task", task),
                   ThenPromise(n + 1, "undefined", "undefined", 0)>>,
     mintQueue |-> mq,
     returned |-> n + 1]

\* enqueueMint as mintQueue = mintQueue.then(task); return mintQueue
enqueueMint_PlainChain(mq, n, task) ==
    [created |-> <<ThenPromise(mq, "task", "none", task)>>,
     mintQueue |-> n + 1,
     returned |-> n + 1]

\* enqueueMint that runs the task once more when it throws:
\* next = mintQueue.then(task, task).catch(task)
enqueueMint_RetryOnce(mq, n, task) ==
    [created |-> <<ThenPromise(mq, "task", "task", task),
                   ThenPromise(n + 1, "none", "task", task),
                   ThenPromise(n + 2, "undefined", "undefined", 0)>>,
     mintQueue |-> n + 3,
     returned |-> n + 2]

\* enqueueMint(task) with mintQueue = mq and n promises created so far: the
\* promises it creates (numbered n+1, n+2), the new mintQueue and the promise
\* it returns.  Promise 0 is the initial Promise.resolve().
enqueueMint(mq, n, task) ==
    [created |-> <<ThenPromise(mq, "task", "task", task),
                   ThenPromise(n + 1, "undefined", "undefined", 0)>>,
     mintQueue |-> n + 2,
     returned |-> n + 1]

(***************************************************************************)
(* The requests and the actions.                                           *)
(***************************************************************************)
\* wallet addresses, colours and Telegram ids of the requests
WalletA == <<"E", "Q", "A">>

WalletB == <<"E", "Q", "B">>

ColorLower == <<"#", "f", "f", "0", "0", "a", "b">>

ColorBare == <<"4", "4", "5", "5", "6", "6">>

ColorInvalid == <<"#", "g", "g">>

SampleRequests ==
    {[walletAddress |-> JsString(WalletA), telegramUserId |-> JsNumber(1),
      color |-> JsString(ColorLower)],
     [walletAddress |-> JsString(WalletB), telegramUserId |-> JsNumber(0),
      color |-> JsString(ColorBare)],
     [walletAddress |-> JsString(WalletB), telegramUserId |-> JsNumber(2),
      color |-> JsString(ColorInvalid)]}

\* a wallet given in the form that is not bounceable, one in the base64
\* alphabet that is not URL-safe, and a text that is no address
WalletNonBounceable == <<"U", "Q", "A">>

WalletBase64 == <<"E", "Q", "+">>

WalletNoAddress == <<"E", "Q", "1", "2", "3">>

\* the requests of SpecOutput: those of Spec, and requests with a wallet in
\* another form, with no wallet, with no Telegram id
OutputRequests ==
    SampleRequests \cup
    {[walletAddress |-> JsString(WalletNonBounceable), telegramUserId |-> JsNumber(7),
      color |-> JsString(ColorBare)],
     [walletAddress |-> JsString(WalletBase64), telegramUserId |-> JsNumber(42),
      color |-> JsString(ColorLower)],
     [walletAddress |-> JsString(WalletNoAddress), telegramUserId |-> JsNull,
      color |-> JsString(ColorBare)],
     [walletAddress |-> JsUndefined, telegramUserId |-> JsUndefined,
      color |-> JsString(ColorLower)]}

\* the readings of the server clock (new Date().toISOString())
ClockReadings == {<<"2", "0", "2", "5", "T", "0", ":", "0", "Z">>}

NoChild == [spawned |-> FALSE, closed |-> FALSE,
            command |-> "", args |-> <<>>,
            env |-> [TON_COLOURS_ITEM_OWNER |-> JsUndefined,
                     TON_COLOURS_ITEM_COLOR |-> <<>>,
                     TON_COLOURS_ITEM_TELEGRAM_ID |-> <<>>],
            stdout |-> <<>>, stderr |-> <<>>, phase |-> "none", readIndex |-> 0,
            exit |-> [code |-> JsUndefined, signal |-> "null"]]

Calls == 1..Len(requests)

\* a task that reads the arguments of the latest call instead of its own
TaskRequest_LatestCall(k) == requests[Len(requests)]

\* the arguments { walletAddress, telegramUserId, color } the task of call k
\* closes over
TaskRequest(k) == requests[k]

\* the state of the promise numbered p; 0 is the initial Promise.resolve()
PromiseState(p) == IF p = 0 THEN "fulfilled" ELSE promises[p].state

PromiseValue(p) == IF p = 0 THEN JsUndefined ELSE promises[p].value

Settled(p) == PromiseState(p) \in {"fulfilled", "rejected"}

\* the handler of promise p that its source's settlement selects
Handler(p) == IF PromiseState(promises[p].src) = "fulfilled"
              THEN promises[p].onFulfilled ELSE promises[p].onRejected

Init ==
    /\ requests = <<>>
    /\ promises = <<>>
    /\ mintQueue = 0
    /\ callers = <<>>
    /\ tasks = <<>>
    /\ children = <<>>
    /\ nextItemIndex = 0
    /\ events = 0
    /\ startOrder = <<>>
    /\ spawnOrder = <<>>
    /\ rpcOrder = <<>>
    /\ config = DefaultConfig
    /\ http = <<>>
    /\ bucket = {}
    /\ s3Commands = <<>>
    /\ uploads = <<>>
    /\ sessions = <<>>
    /\ storeCalls = <<>>
    /\ updates = <<>>
    /\ sent = <<>>
    /\ mints = <<>>
    /\ handlerCalls = <<>>

\* mintColorNft(request): the synchronous part, enqueueMint
MintColorNft(request) ==
    /\ LET k == Len(requests) + 1
           e == enqueueMint(mintQueue, Len(promises), k)
       IN  /\ requests' = Append(requests, request)
           /\ promises' = promises \o e.created
           /\ mintQueue' = e.mintQueue
           /\ callers' = Append(callers, e.returned)
           /\ tasks' = Append(tasks, [pc |-> "queued", promise |-> 0,
                                      address |-> "", wallet |-> JsUndefined,
                                      info |-> JsUndefined, precheck |-> JsUndefined,
                                      settled |-> "pending", result |-> JsUndefined])
           /\ children' = Append(children, NoChild)
    /\ UNCHANGED <<nextItemIndex, events, startOrder, spawnOrder, rpcOrder, config>>

\* a promise reaction that runs the mint task: the task starts and awaits
\* getMinterWallet() and wallet.getAddress()
StartTask(p) ==
    /\ promises[p].state = "pending"
    /\ Settled(promises[p].src)
    /\ Handler(p) = "task"
    /\ LET k == promises[p].task
       IN  /\ tasks' = [tasks EXCEPT ![k].pc = "wallet", ![k].promise = p]
           /\ startOrder' = Append(startOrder, k)
    /\ promises' = [promises EXCEPT ![p].state = "running"]
    /\ UNCHANGED <<requests, mintQueue, callers, children, nextItemIndex, events,
                   spawnOrder, rpcOrder, config, edgeVars>>

\* a promise reaction that runs no task: () => undefined, or no handler, in
\* which case the promise takes the state and value of its source
SettleReaction(p) ==
    /\ promises[p].state = "pending"
    /\ Settled(promises[p].src)
    /\ Handler(p) # "task"
    /\ promises' = [promises EXCEPT
         ![p].state = IF Handler(p) = "undefined" THEN "fulfilled"
                      ELSE PromiseState(promises[p].src),
         ![p].value = IF Handler(p) = "undefined" THEN JsUndefined
                      ELSE PromiseValue(promises[p].src)]
    /\ UNCHANGED <<requests, mintQueue, callers, tasks, children, nextItemIndex, events,
                   startOrder, spawnOrder, rpcOrder, config, edgeVars>>

\* the task of call k ends, returning or throwing `value`: the promise whose
\* reaction ran it settles
TaskSettles(k, state, value) ==
    /\ tasks' = [tasks EXCEPT ![k].pc = "done", ![k].settled = state, ![k].result = value]
    /\ promises' = [promises EXCEPT ![tasks[k].promise].state = state,
                                    ![tasks[k].promise].value = value]

\* what getMinterWallet() and wallet.getAddress() give the task: a failure of
\* getMinterWallet, or an address of one of the kinds
WalletInputs == AddressKinds \cup {"walletUnavailable"}

\* the inputs of the specifications with several calls: the address as a
\* string, the two addresses that cannot be formatted, and no wallet
QueueWalletInputs == {"string", "allThrow", "noToString", "walletUnavailable"}

\* resolveMinterWalletStatus up to the call of getAddressInfo (lines 99-107):
\* the query is sent when the address could be formatted
WalletResolved(k, address) ==
    /\ k \in Calls
    /\ tasks[k].pc = "wallet"
    /\ IF address = "walletUnavailable"
       THEN /\ TaskSettles(k, "rejected", PlainError("Wallet contract is not available"))
            /\ UNCHANGED rpcOrder
       ELSE LET friendlyAddress == formatWalletAddress(address, TRUE)
                nonBounceableAddress == formatWalletAddress(address, FALSE)
                thrown == IF ~friendlyAddress.ok THEN friendlyAddress.error
                          ELSE nonBounceableAddress.error
            IN  IF ~friendlyAddress.ok \/ ~nonBounceableAddress.ok
                THEN /\ tasks' = [tasks EXCEPT ![k].pc = "done", ![k].address = address,
                                               ![k].wallet = friendlyAddress,
                                               ![k].settled = "rejected",
                                               ![k].result = thrown]
                     /\ promises' = [promises EXCEPT
                            ![tasks[k].promise].state = "rejected",
                            ![tasks[k].promise].value = thrown]
                     /\ UNCHANGED rpcOrder
                ELSE /\ tasks' = [tasks EXCEPT ![k].pc = "rpc", ![k].address = address,
                                               ![k].wallet = friendlyAddress]
                     /\ rpcOrder' = Append(rpcOrder, k)
                     /\ UNCHANGED promises
    /\ UNCHANGED <<requests, mintQueue, callers, children, nextItemIndex, events, startOrder,
                   spawnOrder, config, edgeVars>>

\* { ...a, ...b }: the properties of a, overridden and extended by those of b
Spread(a, b) ==
    [key \in DOMAIN a \cup DOMAIN b |-> IF key \in DOMAIN b THEN b[key] ELSE a[key]]

\* the child process spawn() returns for a request (lines 208-228): its
\* command, argument list and environment, and no output yet
SpawnedChild(request, color) ==
    [spawned |-> TRUE, closed |-> FALSE,
     command |-> SCRIPT_COMMAND,
     args |-> Append(buildScriptArgs, config.collectionAddress),
     env |-> Spread(config.processEnv,
                    [TON_COLOURS_AUTOMATION |-> "true",
                     TON_COLOURS_COLLECTION_ADDRESS |-> config.collectionAddress,
                     TON_COLOURS_ITEM_OWNER |-> request.walletAddress,
                     TON_COLOURS_ITEM_COLOR |-> color,
                     TON_COLOURS_ITEM_TELEGRAM_ID |-> ToStringValue(request.telegramUserId),
                     TON_WALLET_MNEMONIC |-> Join(config.mnemonicWords, " "),
                     TON_WALLET_VERSION |-> config.walletVersion,
                     TON_NETWORK |-> config.tonNetwork,
                     TON_ENDPOINT |-> config.tonEndpoint]),
     stdout |-> <<>>, stderr |-> <<>>, phase |-> "started", readIndex |-> 0,
     exit |-> [code |-> JsUndefined, signal |-> "null"]]

\* RpcReply with a status cache: once the query of some call has succeeded,
\* the precheck of every later call uses that call's status instead of its own
RpcReply_CachedStatus(k, reply) ==
    /\ k \in Calls
    /\ tasks[k].pc = "rpc"
    /\ LET cached == {j \in Calls : j # k /\ tasks[j].info # JsUndefined /\ tasks[j].info.ok}
           used == IF cached = {} THEN reply
                   ELSE tasks[CHOOSE j \in cached : \A i \in cached : j <= i].info
           ready == ensureMinterWalletReady(used)
           normalizedColor == normalizeHexColor(TaskRequest(k).color)
           thrown == IF ~ready.ok THEN ready.error
                     ELSE PlainError(normalizedColor.message)
       IN  IF ~ready.ok \/ ~normalizedColor.ok
           THEN /\ tasks' = [tasks EXCEPT ![k].pc = "done", ![k].info = reply,
                                          ![k].precheck = ready,
                                          ![k].settled = "rejected",
                                          ![k].result = thrown]
                /\ promises' = [promises EXCEPT ![tasks[k].promise].state = "rejected",
                                                ![tasks[k].promise].value = thrown]
                /\ UNCHANGED <<children, spawnOrder>>
           ELSE /\ tasks' = [tasks EXCEPT ![k].pc = "running", ![k].info = reply,
                                          ![k].precheck = ready]
                /\ children' = [children EXCEPT
                       ![k] = SpawnedChild(TaskRequest(k), normalizedColor.value)]
                /\ spawnOrder' = Append(spawnOrder, k)
                /\ UNCHANGED promises
    /\ UNCHANGED <<requests, mintQueue, callers, nextItemIndex, events, startOrder,
                   rpcOrder, config, edgeVars>>

\* the reply of getAddressInfo arrives: the rest of resolveMinterWalletStatus
\* and ensureMinterWalletReady, normalizeHexColor, and runDeployScript up to
\* its await of the close event (lines 107-126, 140-183, 256-264, 207-240)
RpcReply(k, reply) ==
    /\ k \in Calls
    /\ tasks[k].pc = "rpc"
    /\ LET ready == ensureMinterWalletReady(reply)
           normalizedColor == normalizeHexColor(TaskRequest(k).color)
           thrown == IF ~ready.ok THEN ready.error
                     ELSE PlainError(normalizedColor.message)
       IN  IF ~ready.ok \/ ~normalizedColor.ok
           THEN /\ tasks' = [tasks EXCEPT ![k].pc = "done", ![k].info = reply,
                                          ![k].precheck = ready,
                                          ![k].settled = "rejected",
                                          ![k].result = thrown]
                /\ promises' = [promises EXCEPT ![tasks[k].promise].state = "rejected",
                                                ![tasks[k].promise].value = thrown]
                /\ UNCHANGED <<children, spawnOrder>>
           ELSE /\ tasks' = [tasks EXCEPT ![k].pc = "running", ![k].info = reply,
                                          ![k].precheck = ready]
                /\ children' = [children EXCEPT
                       ![k] = SpawnedChild(TaskRequest(k), normalizedColor.value)]
                /\ spawnOrder' = Append(spawnOrder, k)
                /\ UNCHANGED promises
    /\ UNCHANGED <<requests, mintQueue, callers, nextItemIndex, events, startOrder,
                   rpcOrder, config, edgeVars>>

(***************************************************************************)
(* The deploy process: it reads the collection's next item index, sends the *)
(* deploy message, which makes the contract advance its counter, and       *)
(* reports the index it read.                                              *)
(***************************************************************************)
Running(k) == k \in Calls /\ children[k].spawned /\ ~children[k].closed

ProcessReadsIndex(k) ==
    /\ Running(k)
    /\ children[k].phase = "started"
    /\ children' = [children EXCEPT ![k].phase = "read", ![k].readIndex = nextItemIndex]
    /\ UNCHANGED <<requests, promises, mintQueue, callers, tasks, nextItemIndex, events,
                   startOrder, spawnOrder, rpcOrder, config, edgeVars>>

ProcessDeploysItem(k) ==
    /\ Running(k)
    /\ children[k].phase = "read"
    /\ children' = [children EXCEPT ![k].phase = "sent"]
    /\ nextItemIndex' = nextItemIndex + 1
    /\ UNCHANGED <<requests, promises, mintQueue, callers, tasks, events, startOrder,
                   spawnOrder, rpcOrder, config, edgeVars>>

NftAddressOf(i) == <<"E", "Q">> \o NumberToString(i)

MintedAtOf(i) == <<"T">> \o NumberToString(i) \o <<":", "0", "Z">>

LogLine == <<TextTok, Nl>>

ResultLine(json) == <<RESULT_PREFIX, JsonTok(json), Nl>>

\* the result lines of a process that deployed item i: with a line feed, with
\* a carriage return and a line feed after leading spaces, without a line
\* end, with an empty mintedAt, with the itemIndex alone
DeployedLines(i) ==
    LET full == JsonObject(JsNumber(i), JsString(NftAddressOf(i)), JsString(MintedAtOf(i)))
    IN  {ResultLine(full),
         <<Sp, RESULT_PREFIX, Sp, JsonTok(full), Cr, Nl>>,
         <<RESULT_PREFIX, JsonTok(full)>>,
         ResultLine(JsonObject(JsNumber(i), JsString(NftAddressOf(i)), JsString(<<>>))),
         ResultLine(JsonObject(JsNumber(i), JsUndefined, JsUndefined))}

\* result lines that carry no numeric itemIndex, or no JSON
BrokenLines ==
    {ResultLine(JsonObject(JsString(<<"7">>), JsUndefined, JsUndefined)),
     ResultLine(JsNull),
     <<RESULT_PREFIX, TextTok, Nl>>}

\* the chunks a process may write to its stdout
StdoutChunks(child) ==
    {LogLine, <<Nl>>} \cup BrokenLines
    \cup (IF child.phase = "sent" THEN DeployedLines(child.readIndex) ELSE {})

\* the chunks of Spec: the result line of a deployed item, or one without JSON
QueueChunks(child) ==
    {<<RESULT_PREFIX, TextTok, Nl>>}
    \cup (IF child.phase = "sent"
          THEN {ResultLine(JsonObject(JsNumber(child.readIndex),
                                      JsString(NftAddressOf(child.readIndex)),
                                      JsString(MintedAtOf(child.readIndex))))}
          ELSE {})

\* child.stdout.on('data')
StdoutData(k, chunk) ==
    /\ Running(k)
    /\ children' = [children EXCEPT ![k].stdout = @ \o chunk]
    /\ events' = events + 1
    /\ UNCHANGED <<requests, promises, mintQueue, callers, tasks, nextItemIndex,
                   startOrder, spawnOrder, rpcOrder, config, edgeVars>>

\* child.stderr.on('data')
StderrData(k, chunk) ==
    /\ Running(k)
    /\ children' = [children EXCEPT ![k].stderr = @ \o chunk]
    /\ events' = events + 1
    /\ UNCHANGED <<requests, promises, mintQueue, callers, tasks, nextItemIndex,
                   startOrder, spawnOrder, rpcOrder, config, edgeVars>>

\* child.on('close'): runDeployScript resumes and the task runs to its end.
\* The process is gone and the captured output lives on only in what the task
\* settles with.
Close(k, exitState, now) ==
    /\ Running(k)
    /\ tasks[k].pc = "running"
    /\ children' = [children EXCEPT ![k].closed = TRUE, ![k].exit = exitState,
                                    ![k].stdout = <<>>, ![k].stderr = <<>>]
    /\ LET r == mintTaskResult(TaskRequest(k), children[k].env.TON_COLOURS_ITEM_COLOR,
                               children[k].stdout, children[k].stderr, exitState, now)
       IN  TaskSettles(k, r.state, r.value)
    /\ UNCHANGED <<requests, mintQueue, callers, nextItemIndex, events, startOrder, spawnOrder, rpcOrder, config, edgeVars>>

(***************************************************************************)
(* utils/validation.js: assertTelegramUserId, and server.js: POST /mint    *)
(* with the error handler.  Besides the integers, the numbers of the model *)
(* are NaN, the halves n + 1/2 and sign * 2^53, the first integers that    *)
(* are not safe.                                                           *)
(***************************************************************************)
JsNaN == [type |-> "NaN", n |-> 0, s |-> <<>>]

JsFraction(n) == [type |-> "fraction", n |-> n, s |-> <<>>]

JsBeyondSafe(sign) == [type |-> "beyondSafe", n |-> sign, s |-> <<>>]

JsBoolean(b) == [type |-> "boolean", n |-> IF b THEN 1 ELSE 0, s |-> <<>>]

\* the longest run of decimal digits the model reads as an integer; a longer
\* run is a text of 17 digits or more, whose value is beyond 2^53
MaxDigits == 9

AllDigits(s) == \A i \in 1..Len(s) : s[i] \in Digits

\* Number(s) of a string: white space is trimmed; an empty text is 0; a sign,
\* digits and a fraction of digits are read; anything else is NaN
StringToNumber(s) ==
    LET t == Trim(s)
        signed == t # <<>> /\ Head(t) \in {"-", "+"}
        sign == IF t # <<>> /\ Head(t) = "-" THEN -1 ELSE 1
        body == IF signed THEN Tail(t) ELSE t
        dots == {i \in 1..Len(body) : body[i] = "."}
        whole == IF dots = {} THEN body
                 ELSE SubSeq(body, 1, (CHOOSE i \in dots : \A j \in dots : i <= j) - 1)
        fraction == IF dots = {} THEN <<>>
                    ELSE SubSeq(body, (CHOOSE i \in dots : \A j \in dots : i <= j) + 1,
                                Len(body))
    IN  IF t = <<>> THEN JsNumber(0)
        ELSE IF ~AllDigits(whole) \/ ~AllDigits(fraction) \/ (whole = <<>> /\ fraction = <<>>)
        THEN JsNaN
        ELSE IF Len(whole) > MaxDigits THEN JsBeyondSafe(sign)
        ELSE IF \E i \in 1..Len(fraction) : fraction[i] # "0"
        THEN JsFraction(sign * DigitsToNumber(whole))
        ELSE JsNumber(sign * DigitsToNumber(whole))

\* Number(value)
Number(value) ==
    CASE value.type = "string" -> StringToNumber(value.s)
      [] value.type = "boolean" -> JsNumber(value.n)
      [] value.type = "null" -> JsNumber(0)
      [] value.type = "undefined" -> JsNaN
      [] OTHER -> value

\* Number.isSafeInteger: every integer of the model is within 2^53 - 1
IsSafeInteger(value) == value.type = "number"

\* assertTelegramUserId: a thrown error is [ok |-> FALSE]
assertTelegramUserId(value) ==
    IF value.type \in {"undefined", "null"} \/ value = JsString(<<>>)
    THEN [ok |-> FALSE, value |-> JsUndefined, message |-> "telegramUserId is required"]
    ELSE IF ~IsSafeInteger(Number(value))
    THEN [ok |-> FALSE, value |-> JsUndefined,
          message |-> "telegramUserId must be a safe integer"]
    ELSE [ok |-> TRUE, value |-> Number(value), message |-> ""]

assertHexColor(value) == normalizeHexColor(value)

\* the message of the error assertTonAddress throws
TonAddressMessage(value) ==
    IF value.type # "string" THEN "walletAddress must be a string"
    ELSE "walletAddress must be a valid TON address"

\* the error handler that answers with the success status
errorHandler_Accepted(err) ==
    [status |-> 202, payload |-> [error |-> err.message]]

\* the error handler (lines 126-141): the status and the JSON payload of the
\* response.  A statusCode of 0 stands for an error without the property.
errorHandler(err) ==
    [status |-> IF err.statusCode # 0 THEN err.statusCode ELSE 500,
     payload |-> [error |-> err.message]]

\* the statement that throws first in lines 107-109, as the error it throws,
\* or JsUndefined when none throws
ValidationError(body) ==
    IF ~assertTonAddress(body.walletAddress).ok
    THEN PlainError(TonAddressMessage(body.walletAddress))
    ELSE IF ~assertHexColor(body.color).ok
    THEN PlainError(assertHexColor(body.color).message)
    ELSE IF ~assertTelegramUserId(body.telegramUserId).ok
    THEN PlainError(assertTelegramUserId(body.telegramUserId).message)
    ELSE JsUndefined

\* POST /mint up to its await (lines 103-115): the body is validated, and
\* either the error handler responds or mintColorNft is called
PostMint(body) ==
    IF ValidationError(body) # JsUndefined
    THEN /\ http' = Append(http, [body |-> body, call |-> 0,
                                  status |-> errorHandler(ValidationError(body)).status,
                                  payload |-> errorHandler(ValidationError(body)).payload])
         /\ UNCHANGED <<mintVars, storageVars, botVars>>
    ELSE /\ UNCHANGED <<storageVars, botVars>>
         /\ MintColorNft(
                [walletAddress |-> JsString(assertTonAddress(body.walletAddress).value),
                 telegramUserId |-> assertTelegramUserId(body.telegramUserId).value,
                 color |-> JsString(assertHexColor(body.color).value)])
         /\ http' = Append(http, [body |-> body, call |-> Len(requests) + 1,
                                  status |-> 0, payload |-> JsUndefined])

\* POST /mint after its await (lines 117-123): the promise of mintColorNft
\* has settled, and the handler responds with 202 or through the error
\* handler.  A status of 0 stands for no response yet.
Respond(h) ==
    /\ h \in 1..Len(http)
    /\ http[h].status = 0
    /\ Settled(callers[http[h].call])
    /\ LET value == PromiseValue(callers[http[h].call])
       IN  http' = [http EXCEPT
               ![h].status = IF PromiseState(callers[http[h].call]) = "fulfilled"
                             THEN 202 ELSE errorHandler(value).status,
               ![h].payload = IF PromiseState(callers[http[h].call]) = "fulfilled"
                              THEN Spread([status |-> "submitted"], value)
                              ELSE errorHandler(value).payload]
    /\ UNCHANGED <<mintVars, storageVars, botVars>>

\* the JSON bodies of the POST /mint requests
HttpBodies ==
    {[walletAddress |-> JsString(WalletNonBounceable),
      telegramUserId |-> JsString(<<" ", "7", "7">>), color |-> JsString(ColorBare)],
     [walletAddress |-> JsString(WalletB), telegramUserId |-> JsNumber(-5),
      color |-> JsString(ColorLower)],
     [walletAddress |-> JsString(WalletB), telegramUserId |-> JsFraction(1),
      color |-> JsString(ColorLower)],
     [walletAddress |-> JsString(WalletB), telegramUserId |-> JsBeyondSafe(1),
      color |-> JsString(ColorLower)],
     [walletAddress |-> JsString(WalletA), telegramUserId |-> JsNull,
      color |-> JsString(ColorBare)],
     [walletAddress |-> JsString(WalletNoAddress), telegramUserId |-> JsNumber(1),
      color |-> JsString(ColorLower)],
     [walletAddress |-> JsString(WalletA), telegramUserId |-> JsNumber(1),
      color |-> JsString(ColorInvalid)]}

(***************************************************************************)
(* services/minioStorage.js, and the MinIO server: a bucket that answers   *)
(* HeadObject by what it holds and stores the object of a PutObject, or    *)
(* fails to answer.                                                        *)
(***************************************************************************)
MinioEndpoint == <<"h", ":", "/", "/", "m", "/">>

MinioPublicUrl == <<"h", ":", "/", "/", "c", "d", "n">>

\* a configuration with MINIO_ENDPOINT, the two keys and MINIO_PUBLIC_URL set
WithMinio(c, endpoint, publicUrl) ==
    [c EXCEPT !.minioEndpoint = endpoint, !.minioAccessKey = "minio-access",
              !.minioSecretKey = "minio-secret", !.minioPublicUrl = publicUrl]

\* MinIO configured, with and without a public URL
MinioConfigs == {WithMinio(DefaultConfig, MinioEndpoint, <<>>),
                 WithMinio(DefaultConfig, MinioEndpoint, MinioPublicUrl)}

isMinioConfigured ==
    /\ config.minioEndpoint # <<>>
    /\ config.minioAccessKey # ""
    /\ config.minioSecretKey # ""
    /\ config.minioBucket # <<>>

\* generateObjectKey: svgs/RRGGBB.svg
generateObjectKey(color) ==
    <<"s", "v", "g", "s", "/">>
    \o ToUpperCase(RemoveFirstHash(normalizeHexColor(color).value))
    \o <<".", "s", "v", "g">>

\* s.replace(/\/$/, '')
WithoutTrailingSlash(s) ==
    IF s # <<>> /\ s[Len(s)] = "/" THEN SubSeq(s, 1, Len(s) - 1) ELSE s

getPublicUrl(key) ==
    WithoutTrailingSlash(IF config.minioPublicUrl # <<>> THEN config.minioPublicUrl
                         ELSE config.minioEndpoint)
    \o <<"/">> \o config.minioBucket \o <<"/">> \o key

\* objectExists that finds nothing
objectExists_NeverFound(key, failed) ==
    IF failed THEN [ok |-> FALSE, exists |-> FALSE] ELSE [ok |-> TRUE, exists |-> FALSE]

\* objectExists, given whether the HeadObject request failed with an error
\* other than not-found: a thrown error is [ok |-> FALSE]
objectExists(key, failed) ==
    IF failed THEN [ok |-> FALSE, exists |-> FALSE]
    ELSE [ok |-> TRUE, exists |-> key \in bucket]

\* the uploads that have returned a URL
ReturnedUploads == {u \in 1..Len(uploads) : uploads[u].pc = "returned"}

\* uploadColorSvgToMinio(color) up to its await of objectExists (lines
\* 100-110): it throws without a client or for a colour that is none, and
\* sends HeadObject otherwise
UploadColorSvgToMinio(color) ==
    /\ LET call == [color |-> color, pc |-> "head", key |-> <<>>, url |-> <<>>,
                    message |-> "", after |-> ReturnedUploads]
       IN  IF ~isMinioConfigured
           THEN /\ uploads' = Append(uploads, [call EXCEPT !.pc = "thrown",
                                                  !.message = "MinIO not configured"])
                /\ UNCHANGED s3Commands
           ELSE IF ~normalizeHexColor(color).ok
           THEN /\ uploads' = Append(uploads, [call EXCEPT !.pc = "thrown",
                                       !.message = normalizeHexColor(color).message])
                /\ UNCHANGED s3Commands
           ELSE /\ uploads' = Append(uploads, [call EXCEPT
                                       !.key = generateObjectKey(JsString(
                                                   normalizeHexColor(color).value))])
                /\ s3Commands' = Append(s3Commands,
                       [name |-> "HeadObject", upload |-> Len(uploads) + 1,
                        key |-> generateObjectKey(JsString(normalizeHexColor(color).value))])
    /\ UNCHANGED <<mintVars, http, bucket, botVars>>

\* the answer to HeadObject arrives (lines 110-137): the URL is returned for
\* an object that exists, PutObject is sent for one that does not, and any
\* other error is thrown
HeadObjectReply(u, failed) ==
    /\ u \in 1..Len(uploads)
    /\ uploads[u].pc = "head"
    /\ LET exists == objectExists(uploads[u].key, failed)
       IN  IF ~exists.ok
           THEN /\ uploads' = [uploads EXCEPT ![u].pc = "thrown",
                                              ![u].message = "HeadObject failed"]
                /\ UNCHANGED s3Commands
           ELSE IF exists.exists
           THEN /\ uploads' = [uploads EXCEPT ![u].pc = "returned",
                                              ![u].url = getPublicUrl(uploads[u].key)]
                /\ UNCHANGED s3Commands
           ELSE /\ uploads' = [uploads EXCEPT ![u].pc = "put"]
                /\ s3Commands' = Append(s3Commands,
                       [name |-> "PutObject", upload |-> u, key |-> uploads[u].key])
    /\ UNCHANGED <<mintVars, http, bucket, botVars>>

\* the answer to PutObject arrives (lines 136-144): the bucket has stored
\* the object and the URL is returned, or the upload failed and an error is
\* thrown
PutObjectReply(u, stored) ==
    /\ u \in 1..Len(uploads)
    /\ uploads[u].pc = "put"
    /\ IF stored
       THEN /\ bucket' = bucket \cup {uploads[u].key}
            /\ uploads' = [uploads EXCEPT ![u].pc = "returned",
                                          ![u].url = getPublicUrl(uploads[u].key)]
       ELSE /\ UNCHANGED bucket
            /\ uploads' = [uploads EXCEPT ![u].pc = "thrown",
                              ![u].message = "Failed to upload SVG to MinIO"]
    /\ UNCHANGED <<mintVars, http, s3Commands, botVars>>

\* the number of uploadColorSvgToMinio calls of SpecUpload
MaxUploads == 2

ColorUpper == <<"F", "F", "0", "0", "A", "B">>

ColorPadded == <<" ", "#", "F", "f", "0", "0", "a", "B">>

\* the colours uploaded: one colour written in three ways, another colour
\* and a text that is no colour
UploadColors == {JsString(ColorLower), JsString(ColorUpper), JsString(ColorPadded),
                 JsString(ColorBare), JsString(ColorInvalid)}

(***************************************************************************)
(* services/telegramSessionStore.js.  The Map is a function from the keys  *)
(* it holds to their sessions; a method is given the Map and the clock     *)
(* reading and returns the Map it leaves.                                  *)
(***************************************************************************)
\* a ?? b
Nullish(a, b) == IF a.type \in {"undefined", "null"} THEN b ELSE a

\* object?.field of an object that may be undefined or null
Optional(object, field) ==
    IF object.type \in {"undefined", "null"} THEN JsUndefined ELSE object[field]

\* Map.prototype.set
MapSet(store, key, value) ==
    [k \in DOMAIN store \cup {key} |-> IF k = key THEN value ELSE store[k]]

\* the session touch creates (lines 59-72)
NewSession(userId, now) ==
    [userId |-> userId, username |-> JsNull, firstName |-> JsNull, lastName |-> JsNull,
     languageCode |-> JsNull, walletAddress |-> JsNull, lastColor |-> JsNull,
     lastMint |-> JsNull, totalMints |-> 0,
     createdAt |-> JsString(now), updatedAt |-> JsString(now),
     lastInteractionAt |-> JsString(now)]

\* upsertUser that replaces the profile by the update, absent fields becoming null
upsertUser_ReplacesProfile(store, user, now) ==
    IF user.type \in {"undefined", "null"} \/ user.id.type # "number"
    THEN [ok |-> FALSE, store |-> store]
    ELSE IF user.id \in DOMAIN store
    THEN [ok |-> TRUE,
          store |-> MapSet(store, user.id,
              [store[user.id] EXCEPT
                  !.username = Nullish(user.username, JsNull),
                  !.firstName = Nullish(user.first_name, JsNull),
                  !.lastName = Nullish(user.last_name, JsNull),
                  !.languageCode = Nullish(user.language_code, JsNull),
                  !.lastInteractionAt = JsString(now),
                  !.updatedAt = JsString(now)])]
    ELSE [ok |-> TRUE,
          store |-> MapSet(store, user.id,
              [NewSession(user.id, now) EXCEPT
                  !.username = Nullish(user.username, JsNull),
                  !.firstName = Nullish(user.first_name, JsNull),
                  !.lastName = Nullish(user.last_name, JsNull),
                  !.languageCode = Nullish(user.language_code, JsNull)])]

\* upsertUser: a thrown error is [ok |-> FALSE]
upsertUser(store, user, now) ==
    IF user.type \in {"undefined", "null"} \/ user.id.type # "number"
    THEN [ok |-> FALSE, store |-> store]
    ELSE IF user.id \in DOMAIN store
    THEN [ok |-> TRUE,
          store |-> MapSet(store, user.id,
              [store[user.id] EXCEPT
                  !.username = Nullish(user.username, Nullish(@, JsNull)),
                  !.firstName = Nullish(user.first_name, Nullish(@, JsNull)),
                  !.lastName = Nullish(user.last_name, Nullish(@, JsNull)),
                  !.languageCode = Nullish(user.language_code, Nullish(@, JsNull)),
                  !.lastInteractionAt = JsString(now),
                  !.updatedAt = JsString(now)])]
    ELSE [ok |-> TRUE,
          store |-> MapSet(store, user.id,
              [NewSession(user.id, now) EXCEPT
                  !.username = Nullish(user.username, JsNull),
                  !.firstName = Nullish(user.first_name, JsNull),
                  !.lastName = Nullish(user.last_name, JsNull),
                  !.languageCode = Nullish(user.language_code, JsNull)])]

touch(store, userId, now) ==
    IF userId \in DOMAIN store
    THEN MapSet(store, userId,
                [store[userId] EXCEPT !.lastInteractionAt = JsString(now), !.updatedAt = JsString(now)])
    ELSE MapSet(store, userId, NewSession(userId, now))

\* get: the session, or null
get(store, userId) == IF userId \in DOMAIN store THEN store[userId] ELSE JsNull

\* lines 82-84, 97-99 and 112-114: a session is created for a key without one
Touched(store, userId, now) ==
    IF userId \in DOMAIN store THEN store ELSE touch(store, userId, now)

setWallet(store, userId, walletAddress, now) ==
    MapSet(store, userId,
           [Touched(store, userId, now)[userId] EXCEPT
               !.walletAddress = Nullish(walletAddress, JsNull),
               !.updatedAt = JsString(now)])

setLastColor(store, userId, color, now) ==
    MapSet(store, userId,
           [Touched(store, userId, now)[userId] EXCEPT
               !.lastColor = Nullish(color, JsNull),
               !.updatedAt = JsString(now)])

\* the summary recordMint builds of its argument (lines 117-127)
MintSummaryOf(mintSummary, now) ==
    LET mintedAt == Nullish(Optional(mintSummary, "mintedAt"),
                            Nullish(Optional(mintSummary, "timestamp"), JsString(now)))
    IN  [itemIndex |-> Nullish(Optional(mintSummary, "itemIndex"), JsNull),
         metadataUri |-> Nullish(Optional(mintSummary, "metadataUri"), JsNull),
         nftAddress |-> Nullish(Optional(mintSummary, "nftAddress"), JsNull),
         color |-> Nullish(Optional(mintSummary, "color"), JsNull),
         ownerAddress |-> Nullish(Optional(mintSummary, "ownerAddress"), JsNull),
         mintedAt |-> mintedAt,
         timestamp |-> Nullish(Optional(mintSummary, "timestamp"),
                               Nullish(mintedAt, JsString(now))),
         source |-> Nullish(Optional(mintSummary, "source"), JsNull)]

\* recordMint that counts the users who have minted, not the mints
recordMint_CountsOnce(store, userId, mintSummary, now) ==
    LET session == Touched(store, userId, now)[userId]
        summary == MintSummaryOf(mintSummary, now)
    IN  MapSet(store, userId,
               [session EXCEPT
                   !.lastMint = summary,
                   !.lastColor = Nullish(summary.color, Nullish(@, JsNull)),
                   !.totalMints = 1,
                   !.updatedAt = JsString(now)])

recordMint(store, userId, mintSummary, now) ==
    LET session == Touched(store, userId, now)[userId]
        summary == MintSummaryOf(mintSummary, now)
    IN  MapSet(store, userId,
               [session EXCEPT
                   !.lastMint = summary,
                   !.lastColor = Nullish(summary.color, Nullish(@, JsNull)),
                   !.totalMints = @ + 1,
                   !.updatedAt = JsString(now)])

\* a call of a method of the store, as storeCalls records it
StoreCall(op, userId, argument) == [op |-> op, userId |-> userId, argument |-> argument]

\* the store's methods called from outside the bot
UpsertUser(user, now) ==
    /\ sessions' = upsertUser(sessions, user, now).store
    /\ storeCalls' = Append(storeCalls, StoreCall("upsertUser", user.id, user))
    /\ UNCHANGED <<mintVars, http, storageVars, updates, sent, mints, handlerCalls>>

Touch(userId, now) ==
    /\ sessions' = touch(sessions, userId, now)
    /\ storeCalls' = Append(storeCalls, StoreCall("touch", userId, JsUndefined))
    /\ UNCHANGED <<mintVars, http, storageVars, updates, sent, mints, handlerCalls>>

SetWallet(userId, walletAddress, now) ==
    /\ sessions' = setWallet(sessions, userId, walletAddress, now)
    /\ storeCalls' = Append(storeCalls, StoreCall("setWallet", userId, walletAddress))
    /\ UNCHANGED <<mintVars, http, storageVars, updates, sent, mints, handlerCalls>>

SetLastColor(userId, color, now) ==
    /\ sessions' = setLastColor(sessions, userId, color, now)
    /\ storeCalls' = Append(storeCalls, StoreCall("setLastColor", userId, color))
    /\ UNCHANGED <<mintVars, http, storageVars, updates, sent, mints, handlerCalls>>

RecordMint(userId, mintSummary, now) ==
    /\ sessions' = recordMint(sessions, userId, mintSummary, now)
    /\ storeCalls' = Append(storeCalls, StoreCall("recordMint", userId, mintSummary))
    /\ UNCHANGED <<mintVars, http, storageVars, updates, sent, mints, handlerCalls>>

\* the number of calls of the store's methods in SpecStore
MaxStoreCalls == 3

UserSeven == JsNumber(7)

UserEight == JsNumber(8)

\* the user objects of Telegram: with and without a profile, and one
\* without an id
TelegramUsers ==
    {[type |-> "object", id |-> UserSeven, username |-> JsUndefined,
      first_name |-> JsUndefined, last_name |-> JsUndefined,
      language_code |-> JsUndefined],
     [type |-> "object", id |-> UserEight, username |-> JsString(<<"t", "o", "n">>),
      first_name |-> JsString(<<"T">>), last_name |-> JsNull,
      language_code |-> JsString(<<"e", "n">>)],
     [type |-> "object", id |-> UserEight, username |-> JsUndefined,
      first_name |-> JsString(<<"T", "O">>), last_name |-> JsUndefined,
      language_code |-> JsNull],
     [type |-> "object", id |-> JsUndefined, username |-> JsString(<<"x">>),
      first_name |-> JsUndefined, last_name |-> JsUndefined,
      language_code |-> JsUndefined]}

\* a mint summary with the given fields
MintSummary(itemIndex, color, mintedAt, timestamp, source) ==
    [type |-> "object", itemIndex |-> itemIndex,
     metadataUri |-> IF itemIndex.type = "number"
                     THEN JsString(MetadataPath \o NumberToString(itemIndex.n))
                     ELSE JsUndefined,
     nftAddress |-> IF itemIndex.type = "number" THEN JsString(NftAddressOf(itemIndex.n))
                    ELSE JsUndefined,
     color |-> color, ownerAddress |-> JsUndefined,
     mintedAt |-> mintedAt, timestamp |-> timestamp, source |-> source]

\* the arguments of recordMint: full summaries of two items, one with a
\* timestamp and nothing else, and none
MintSummaries ==
    {MintSummary(JsNumber(42), JsString(<<"#", "F", "F", "0", "0", "A", "A">>),
                 JsString(MintedAtOf(1)), JsString(MintedAtOf(1)), JsString(<<"a", "p", "p">>)),
     MintSummary(JsNumber(43), JsUndefined, JsString(MintedAtOf(2)), JsUndefined, JsNull),
     MintSummary(JsUndefined, JsUndefined, JsUndefined, JsString(MintedAtOf(3)),
                 JsUndefined),
     JsUndefined}

\* ---------------------------------------------------------------------------
\* The Telegram bot (src/services/telegramBotService.js)

HELP_MESSAGE == "Welcome to TON Colours!"

DEFAULT_ACK_MESSAGE == "Mint request received! This may take ~20-40 seconds. I'll keep you posted."

ToLowerChar(c) == CASE c = "M" -> "m" [] c = "I" -> "i" [] c = "N" -> "n"
                    [] c = "T" -> "t" [] c = "W" -> "w" [] c = "A" -> "a"
                    [] c = "L" -> "l" [] c = "E" -> "e" [] c = "S" -> "s"
                    [] c = "R" -> "r" [] c = "H" -> "h" [] c = "P" -> "p"
                    [] OTHER -> c

ToLowerCase(s) == [i \in 1..Len(s) |-> ToLowerChar(s[i])]

RECURSIVE SplitWhiteSpace(_, _)
\* String.prototype.split(/\s+/): every run of white space is one separator
SplitWhiteSpace(s, cur) ==
    IF s = <<>> THEN <<cur>>
    ELSE IF Head(s) \in WhiteSpace
    THEN <<cur>> \o SplitWhiteSpace(TrimStart(s), <<>>)
    ELSE SplitWhiteSpace(Tail(s), Append(cur, Head(s)))

\* parseCommand: null is [ok |-> FALSE]
parseCommand(input) ==
    IF input.type # "string" THEN [ok |-> FALSE, command |-> <<>>, args |-> <<>>]
    ELSE LET trimmed == Trim(input.s)
         IN  IF ~StartsWith(trimmed, <<"/">>)
             THEN [ok |-> FALSE, command |-> <<>>, args |-> <<>>]
             ELSE LET parts == SplitWhiteSpace(trimmed, <<>>)
                      commandToken == Head(parts)
                  IN  IF commandToken = <<>>
                      THEN [ok |-> FALSE, command |-> <<>>, args |-> <<>>]
                      ELSE [ok |-> TRUE,
                            command |-> ToLowerCase(Head(SplitOn(commandToken, "@", <<>>))),
                            args |-> Tail(parts)]

\* what a handler does before its first await ends: the store it leaves, the
\* calls of the store's methods it made, the messages it sends and the mint it
\* goes on to request (JsUndefined when none)
Handled(store, calls, messages, mint) ==
    [store |-> store, calls |-> calls, messages |-> messages, mint |-> mint]

\* a message of the bot: its text, with the error message or the value it quotes
BotMessage(text, error, value) == [text |-> text, error |-> error, value |-> value]

\* requestMint that takes the wallet as it was given
requestMint_WalletUnchecked(store, user, colourInput, walletOverride, source, now) ==
    LET colour == assertHexColor(colourInput)
        session == get(store, user.id)
        store1 == IF session = JsNull THEN touch(store, user.id, now) ELSE store
        calls1 == IF session = JsNull THEN <<StoreCall("touch", user.id, JsUndefined)>>
                  ELSE <<>>
        walletSource == Nullish(walletOverride, Nullish(store1[user.id].walletAddress, JsNull))
    IN  IF ~colour.ok
        THEN Handled(store, <<>>,
                     <<BotMessage("Invalid colour value", colour.message, JsUndefined)>>,
                     JsUndefined)
        ELSE IF ~Truthy(walletSource)
        THEN Handled(store1, calls1,
                     <<BotMessage("I need a TON wallet address to mint.", "", JsUndefined)>>,
                     JsUndefined)
        ELSE Handled(setLastColor(setWallet(store1, user.id, walletSource, now),
                                  user.id, JsString(colour.value), now),
                     calls1 \o <<StoreCall("setWallet", user.id, walletSource),
                                 StoreCall("setLastColor", user.id, JsString(colour.value))>>,
                     <<BotMessage(DEFAULT_ACK_MESSAGE, "", JsUndefined)>>,
                     [type |-> "object", walletAddress |-> walletSource,
                      telegramUserId |-> user.id, color |-> JsString(colour.value),
                      source |-> source])

\* requestMint up to the acknowledgement (lines 312-343): the colour, the
\* session, the wallet, then the two writes of the session
requestMint(store, user, colourInput, walletOverride, source, now) ==
    LET colour == assertHexColor(colourInput)
        session == get(store, user.id)
        store1 == IF session = JsNull THEN touch(store, user.id, now) ELSE store
        calls1 == IF session = JsNull THEN <<StoreCall("touch", user.id, JsUndefined)>>
                  ELSE <<>>
        walletSource == Nullish(walletOverride, Nullish(store1[user.id].walletAddress, JsNull))
        wallet == assertTonAddress(walletSource)
    IN  IF ~colour.ok
        THEN Handled(store, <<>>,
                     <<BotMessage("Invalid colour value", colour.message, JsUndefined)>>,
                     JsUndefined)
        ELSE IF ~Truthy(walletSource)
        THEN Handled(store1, calls1,
                     <<BotMessage("I need a TON wallet address to mint.", "", JsUndefined)>>,
                     JsUndefined)
        ELSE IF ~wallet.ok
        THEN Handled(store1, calls1,
                     <<BotMessage("Invalid wallet address", TonAddressMessage(walletSource),
                                  JsUndefined)>>,
                     JsUndefined)
        ELSE Handled(setLastColor(setWallet(store1, user.id, JsString(wallet.value), now),
                                  user.id, JsString(colour.value), now),
                     calls1 \o <<StoreCall("setWallet", user.id, JsString(wallet.value)),
                                 StoreCall("setLastColor", user.id, JsString(colour.value))>>,
                     <<BotMessage(DEFAULT_ACK_MESSAGE, "", JsUndefined)>>,
                     [type |-> "object", walletAddress |-> JsString(wallet.value),
                      telegramUserId |-> user.id, color |-> JsString(colour.value),
                      source |-> source])

\* handleWallet that stores the address as the user typed it
handleWallet_StoresInput(store, user, args, now) ==
    IF args = <<>>
    THEN Handled(store, <<>>, <<BotMessage("Usage: /wallet <TON address>", "", JsUndefined)>>,
                 JsUndefined)
    ELSE LET normalized == assertTonAddress(JsString(args[1]))
         IN  IF normalized.ok
             THEN Handled(setWallet(store, user.id, JsString(args[1]), now),
                          <<StoreCall("setWallet", user.id, JsString(args[1]))>>,
                          <<BotMessage("Wallet saved", "", JsString(args[1]))>>,
                          JsUndefined)
             ELSE Handled(store, <<>>,
                          <<BotMessage("Invalid wallet address",
                                       TonAddressMessage(JsString(args[1])), JsUndefined)>>,
                          JsUndefined)

\* handleWallet (lines 254-267)
handleWallet(store, user, args, now) ==
    IF args = <<>>
    THEN Handled(store, <<>>, <<BotMessage("Usage: /wallet <TON address>", "", JsUndefined)>>,
                 JsUndefined)
    ELSE LET normalized == assertTonAddress(JsString(args[1]))
         IN  IF normalized.ok
             THEN Handled(setWallet(store, user.id, JsString(normalized.value), now),
                          <<StoreCall("setWallet", user.id, JsString(normalized.value))>>,
                          <<BotMessage("Wallet saved", "", JsString(normalized.value))>>,
                          JsUndefined)
             ELSE Handled(store, <<>>,
                          <<BotMessage("Invalid wallet address",
                                       TonAddressMessage(JsString(args[1])), JsUndefined)>>,
                          JsUndefined)

SourceCommand == JsString(<<"c", "o", "m", "m", "a", "n", "d">>)

SourceMiniApp == JsString(<<"m", "i", "n", "i", "-", "a", "p", "p">>)

\* handleMint (lines 269-285): args[1] of a shorter array is undefined
handleMint(store, user, args, now) ==
    IF args = <<>>
    THEN Handled(store, <<>>,
                 <<BotMessage("Usage: /mint <hex colour> [TON address]", "", JsUndefined)>>,
                 JsUndefined)
    ELSE requestMint(store, user, JsString(args[1]),
                     IF Len(args) >= 2 THEN JsString(args[2]) ELSE JsUndefined,
                     SourceCommand, now)

\* object.field: undefined for a property the object does not have
Property(object, field) == IF field \in DOMAIN object THEN object[field] ELSE JsUndefined

\* handleWebAppData (lines 287-310) on what JSON.parse makes of the data: a
\* SyntaxError, or a value; reading a property of null throws a TypeError
handleWebAppData(store, user, parsed, now) ==
    IF parsed.type \in {"SyntaxError", "null"}
    THEN Handled(store, <<>>,
                 <<BotMessage("Failed to parse mini app payload.", "", JsUndefined)>>,
                 JsUndefined)
    ELSE LET colourInput ==
                 Nullish(Property(parsed, "color"),
                 Nullish(Property(parsed, "colour"),
                 Nullish(Property(parsed, "hex"),
                 Nullish(Property(parsed, "hexColor"),
                 Nullish(Property(parsed, "hex_colour"), JsNull)))))
             walletOverride ==
                 Nullish(Property(parsed, "walletAddress"),
                 Nullish(Property(parsed, "wallet"),
                 Nullish(Property(parsed, "owner"), JsNull)))
         IN  IF ~Truthy(colourInput)
             THEN Handled(store, <<>>,
                          <<BotMessage("The mini app payload is missing the colour value.",
                                       "", JsUndefined)>>,
                          JsUndefined)
             ELSE requestMint(store, user, colourInput, walletOverride, SourceMiniApp, now)

\* handleStart (lines 243-248)
handleStart(store, user, now) ==
    Handled(upsertUser(store, user, now).store,
            <<StoreCall("upsertUser", user.id, user)>>,
            <<BotMessage(HELP_MESSAGE, "", JsUndefined)>>, JsUndefined)

\* the handler with the calls of the store made before it
After(calls, handled) == [handled EXCEPT !.calls = calls \o @]

\* handleUpdate and handleMessage (lines 166-241) on an update that holds a
\* message, an edited message or a callback query with its message
handleMessage(store, update, now) ==
    LET fromUser == update.from
        chatId == update.chat
    IN  IF fromUser.type # "object" \/ fromUser.id.type # "number"
        THEN Handled(store, <<>>, <<>>, JsUndefined)
        ELSE IF chatId.type \notin {"number", "string"}
        THEN Handled(store, <<>>, <<>>, JsUndefined)
        ELSE LET store0 == upsertUser(store, fromUser, now).store
                 calls0 == <<StoreCall("upsertUser", fromUser.id, fromUser)>>
                 text == Nullish(IF update.kind = "callback_query" THEN update.data
                                 ELSE JsUndefined,
                                 Nullish(update.text, JsString(<<>>)))
                 command == parseCommand(text)
             IN  IF update.web_app_data.type # "undefined"
                 THEN After(calls0, handleWebAppData(store0, fromUser,
                                                     update.web_app_data, now))
                 ELSE IF ~command.ok
                 THEN IF update.kind = "edited_message"
                      THEN Handled(store0, calls0, <<>>, JsUndefined)
                      ELSE Handled(store0, calls0,
                                   <<BotMessage("I did not recognise that message.",
                                                "", JsUndefined)>>,
                                   JsUndefined)
                 ELSE IF command.command = <<"/", "s", "t", "a", "r", "t">>
                 THEN After(calls0, handleStart(store0, fromUser, now))
                 ELSE IF command.command = <<"/", "h", "e", "l", "p">>
                 THEN Handled(store0, calls0, <<BotMessage(HELP_MESSAGE, "", JsUndefined)>>,
                              JsUndefined)
                 ELSE IF command.command = <<"/", "w", "a", "l", "l", "e", "t">>
                 THEN After(calls0, handleWallet(store0, fromUser, command.args, now))
                 ELSE IF command.command = <<"/", "m", "i", "n", "t">>
                 THEN After(calls0, handleMint(store0, fromUser, command.args, now))
                 ELSE Handled(store0, calls0,
                              <<BotMessage("Unknown command.", "", JsUndefined)>>,
                              JsUndefined)

\* the responses to the exchanges of the webhook where update u was handled,
\* once handleUpdate has settled (line 430)
WebhookAnswered(exchanges, u) ==
    [i \in DOMAIN exchanges |->
        IF exchanges[i].update = u
        THEN [exchanges[i] EXCEPT !.status = 200, !.ok = TRUE]
        ELSE exchanges[i]]

\* controller.handleUpdate(update): the handler runs to its first await
HandleUpdate(update, now) ==
    LET handled == handleMessage(sessions, update, now)
        u == Len(updates) + 1
    IN  /\ updates' = Append(updates, update)
        /\ sessions' = handled.store
        /\ storeCalls' = storeCalls \o handled.calls
        /\ sent' = sent \o [i \in 1..Len(handled.messages) |->
                               [update |-> u, chat |-> update.chat,
                                text |-> handled.messages[i].text,
                                error |-> handled.messages[i].error,
                                value |-> handled.messages[i].value]]
        /\ mints' = IF handled.mint.type = "object"
                    THEN Append(mints, [update |-> u, chat |-> update.chat,
                                        request |-> handled.mint, pc |-> "acknowledging",
                                        result |-> JsUndefined])
                    ELSE mints
        /\ UNCHANGED <<mintVars, storageVars, handlerCalls>>

\* a route that answers 401 and hands the update to the controller all the same
PostWebhook_HandlesRejected(header, update, now) ==
    LET secretToken == config.telegramSecretToken
    IN  /\ HandleUpdate(update, now)
        /\ http' = Append(http,
               IF Truthy(secretToken) /\ header # secretToken
               THEN [route |-> "telegram", header |-> header, update |-> 0,
                     status |-> 401, ok |-> FALSE]
               ELSE [route |-> "telegram", header |-> header,
                     update |-> Len(updates) + 1,
                     status |-> IF Len(mints') > Len(mints) THEN 0 ELSE 200,
                     ok |-> TRUE])

\* POST / of the webhook router with the X-Telegram-Bot-Api-Secret-Token header
\* of the request, undefined when it has none: with a secret configured, any
\* other header is answered 401 and the update is dropped; else the update is
\* handled, and answered (status 0 until then) when its handling has settled
PostWebhook(header, update, now) ==
    LET secretToken == config.telegramSecretToken
    IN  IF Truthy(secretToken) /\ header # secretToken
        THEN /\ http' = Append(http, [route |-> "telegram", header |-> header,
                                      update |-> 0, status |-> 401, ok |-> FALSE])
             /\ UNCHANGED <<mintVars, storageVars, botVars>>
        ELSE /\ HandleUpdate(update, now)
             /\ http' = Append(http, [route |-> "telegram", header |-> header,
                                      update |-> Len(updates) + 1,
                                      status |-> IF Len(mints') > Len(mints)
                                                 THEN 0 ELSE 200,
                                      ok |-> TRUE])

\* the acknowledgement is sent, or its failure swallowed (lines 383-394), and
\* requestMint calls the mint handler (lines 345-350)
CallMintHandler(m) ==
    /\ mints[m].pc = "acknowledging"
    /\ handlerCalls' = Append(handlerCalls,
           [mint |-> m,
            walletAddress |-> mints[m].request.walletAddress,
            telegramUserId |-> mints[m].request.telegramUserId,
            color |-> mints[m].request.color])
    /\ mints' = [mints EXCEPT ![m].pc = "minting"]
    /\ UNCHANGED <<mintVars, http, storageVars, sessions, storeCalls, updates, sent>>

\* a resolved mint after whose success message the catch reports a failure too
MintHandlerResolves_ThenFails(m, mintResult, now) ==
    /\ mints[m].pc = "minting"
    /\ LET request == mints[m].request
           mintedAt == Nullish(Property(mintResult, "mintedAt"), JsString(now))
           summary == [type |-> "object",
                       itemIndex |-> Property(mintResult, "itemIndex"),
                       metadataUri |-> Property(mintResult, "metadataUri"),
                       nftAddress |-> Property(mintResult, "nftAddress"),
                       color |-> Nullish(Property(mintResult, "color"), request.color),
                       ownerAddress |-> Nullish(Property(mintResult, "ownerAddress"),
                                                request.walletAddress),
                       mintedAt |-> mintedAt, timestamp |-> mintedAt,
                       source |-> request.source]
       IN  IF mintResult.type = "object"
           THEN /\ sessions' = recordMint(sessions, request.telegramUserId, summary, now)
                /\ storeCalls' = Append(storeCalls,
                       StoreCall("recordMint", request.telegramUserId, summary))
                /\ sent' = sent \o <<[update |-> mints[m].update, chat |-> mints[m].chat,
                                          text |-> "Mint successful!", error |-> "",
                                          value |-> mintedAt],
                                         [update |-> mints[m].update, chat |-> mints[m].chat,
                                          text |-> "Mint failed", error |-> "send",
                                          value |-> JsUndefined]>>
                /\ mints' = [mints EXCEPT ![m].pc = "minted", ![m].result = mintResult]
           ELSE /\ sent' = Append(sent, [update |-> mints[m].update, chat |-> mints[m].chat,
                                         text |-> "Mint failed",
                                         error |-> "Cannot read properties of undefined",
                                         value |-> JsUndefined])
                /\ mints' = [mints EXCEPT ![m].pc = "failed"]
                /\ UNCHANGED <<sessions, storeCalls>>
    /\ http' = WebhookAnswered(http, mints[m].update)
    /\ UNCHANGED <<mintVars, storageVars, updates, handlerCalls>>

\* the mint handler resolves (lines 352-374); a result that is no object makes
\* reading its mintedAt throw, which the catch reports
MintHandlerResolves(m, mintResult, now) ==
    /\ mints[m].pc = "minting"
    /\ LET request == mints[m].request
           mintedAt == Nullish(Property(mintResult, "mintedAt"), JsString(now))
           summary == [type |-> "object",
                       itemIndex |-> Property(mintResult, "itemIndex"),
                       metadataUri |-> Property(mintResult, "metadataUri"),
                       nftAddress |-> Property(mintResult, "nftAddress"),
                       color |-> Nullish(Property(mintResult, "color"), request.color),
                       ownerAddress |-> Nullish(Property(mintResult, "ownerAddress"),
                                                request.walletAddress),
                       mintedAt |-> mintedAt, timestamp |-> mintedAt,
                       source |-> request.source]
       IN  IF mintResult.type = "object"
           THEN /\ sessions' = recordMint(sessions, request.telegramUserId, summary, now)
                /\ storeCalls' = Append(storeCalls,
                       StoreCall("recordMint", request.telegramUserId, summary))
                /\ sent' = Append(sent, [update |-> mints[m].update, chat |-> mints[m].chat,
                                         text |-> "Mint successful!", error |-> "",
                                         value |-> mintedAt])
                /\ mints' = [mints EXCEPT ![m].pc = "minted", ![m].result = mintResult]
           ELSE /\ sent' = Append(sent, [update |-> mints[m].update, chat |-> mints[m].chat,
                                         text |-> "Mint failed",
                                         error |-> "Cannot read properties of undefined",
                                         value |-> JsUndefined])
                /\ mints' = [mints EXCEPT ![m].pc = "failed"]
                /\ UNCHANGED <<sessions, storeCalls>>
    /\ http' = WebhookAnswered(http, mints[m].update)
    /\ UNCHANGED <<mintVars, storageVars, updates, handlerCalls>>

\* a rejection after which the mint is recorded all the same
MintHandlerRejects_RecordsMint(m, errorMessage) ==
    /\ mints[m].pc = "minting"
    /\ sent' = Append(sent, [update |-> mints[m].update, chat |-> mints[m].chat,
                             text |-> "Mint failed", error |-> errorMessage,
                             value |-> JsUndefined])
    /\ mints' = [mints EXCEPT ![m].pc = "failed"]
    /\ sessions' = recordMint(sessions, mints[m].request.telegramUserId, JsUndefined,
                              CHOOSE now \in ClockReadings : TRUE)
    /\ http' = WebhookAnswered(http, mints[m].update)
    /\ UNCHANGED <<mintVars, storageVars, storeCalls, updates, handlerCalls>>

\* the mint handler rejects (lines 375-379)
MintHandlerRejects(m, errorMessage) ==
    /\ mints[m].pc = "minting"
    /\ sent' = Append(sent, [update |-> mints[m].update, chat |-> mints[m].chat,
                             text |-> "Mint failed", error |-> errorMessage,
                             value |-> JsUndefined])
    /\ mints' = [mints EXCEPT ![m].pc = "failed"]
    /\ http' = WebhookAnswered(http, mints[m].update)
    /\ UNCHANGED <<mintVars, storageVars, sessions, storeCalls, updates, handlerCalls>>

\* the number of updates the webhook delivers
MaxUpdates == 2

CommandWallet == <<"/", "w", "a", "l", "l", "e", "t">>

CommandMint == <<"/", "m", "i", "n", "t">>

\* a message of a user in the private chat with the bot, whose id is the user's
TextMessage(from, text) ==
    [kind |-> "message", from |-> from, chat |-> from.id, text |-> JsString(text),
     data |-> JsUndefined, web_app_data |-> JsUndefined]

\* a message of the mini app: web_app_data is what JSON.parse makes of its data
WebAppMessage(from, parsed) ==
    [kind |-> "message", from |-> from, chat |-> from.id, text |-> JsUndefined,
     data |-> JsUndefined, web_app_data |-> parsed]

TelegramUser(id) ==
    [type |-> "object", id |-> id, username |-> JsUndefined, first_name |-> JsUndefined,
     last_name |-> JsUndefined, language_code |-> JsUndefined]

BotUpdates ==
    {TextMessage(TelegramUser(UserSeven), CommandWallet \o <<" ">> \o WalletNonBounceable),
     TextMessage(TelegramUser(UserEight), CommandWallet \o <<" ">> \o WalletB),
     TextMessage(TelegramUser(UserEight), CommandWallet \o <<" ">> \o WalletNoAddress),
     TextMessage(TelegramUser(UserSeven), CommandWallet),
     TextMessage(TelegramUser(UserSeven), CommandMint \o <<" ">> \o ColorLower),
     TextMessage(TelegramUser(UserEight), CommandMint \o <<" ">> \o ColorLower),
     TextMessage(TelegramUser(UserEight),
                 CommandMint \o <<" ">> \o ColorBare \o <<" ">> \o WalletA),
     TextMessage(TelegramUser(UserSeven),
                 <<" ", "/", "M", "I", "N", "T", "@", "b", " ", "\t">> \o ColorInvalid
                     \o <<" ">> \o WalletA),
     TextMessage(TelegramUser(UserSeven),
                 CommandMint \o <<" ">> \o ColorLower \o <<" ">> \o WalletNoAddress),
     TextMessage(TelegramUser(UserEight), CommandMint),
     TextMessage(TelegramUser(UserSeven), <<"/", "s", "t", "a", "r", "t">>),
     TextMessage(TelegramUser(UserSeven), <<"/", "h", "e", "l", "p">>),
     TextMessage(TelegramUser(UserSeven), <<"/", "f", "o", "o">>),
     TextMessage(TelegramUser(UserSeven), <<"h", "i">>),
     [TextMessage(TelegramUser(UserSeven), <<"h", "i">>) EXCEPT !.kind = "edited_message"],
     [TextMessage(TelegramUser(UserSeven), <<"h", "i">>) EXCEPT
         !.kind = "callback_query",
         !.data = JsString(CommandMint \o <<" ">> \o ColorBare)],
     [TextMessage(TelegramUser(UserSeven), CommandMint \o <<" ">> \o ColorLower) EXCEPT
         !.chat = JsUndefined],
     TextMessage(TelegramUser(JsUndefined), CommandMint \o <<" ">> \o ColorLower),
     WebAppMessage(TelegramUser(UserSeven),
                   [type |-> "object", colour |-> JsString(ColorLower),
                    wallet |-> JsString(WalletB)]),
     WebAppMessage(TelegramUser(UserEight),
                   [type |-> "object", color |-> JsString(ColorBare)]),
     WebAppMessage(TelegramUser(UserEight),
                   [type |-> "object", walletAddress |-> JsString(WalletA)]),
     WebAppMessage(TelegramUser(UserSeven),
                   [type |-> "object", color |-> JsNumber(5),
                    walletAddress |-> JsString(WalletA)]),
     WebAppMessage(TelegramUser(UserSeven),
                   [type |-> "object", color |-> JsString(ColorLower),
                    walletAddress |-> JsNumber(0)]),
     WebAppMessage(TelegramUser(UserSeven),
                   [type |-> "object", color |-> JsString(ColorLower),
                    walletAddress |-> JsNumber(5)]),
     WebAppMessage(TelegramUser(UserSeven), [type |-> "SyntaxError"]),
     WebAppMessage(TelegramUser(UserSeven), JsNull)}

\* what the mint handler resolves with: the result of mintColorNft, and a
\* result object of a handler that gives neither colour nor time
MintResults ==
    {[type |-> "object", itemIndex |-> JsNumber(42),
      metadataUri |-> JsString(MetadataPath \o NumberToString(42)),
      nftAddress |-> JsString(NftAddressOf(42)),
      color |-> JsString(<<"#", "F", "F", "0", "0", "A", "B">>),
      ownerAddress |-> JsString(WalletA), mintedAt |-> JsString(MintedAtOf(1))],
     [type |-> "object", itemIndex |-> JsNumber(43),
      metadataUri |-> JsString(MetadataPath \o NumberToString(43))]}

\* Spec: up to MaxRequests calls in any interleaving, whose processes write
\* up to MaxEvents result lines in all
Next ==
    \/ \E request \in SampleRequests :
          Len(requests) < MaxRequests /\ MintColorNft(request) /\ UNCHANGED edgeVars
    \/ \E p \in 1..Len(promises) : StartTask(p)
    \/ \E p \in 1..Len(promises) : SettleReaction(p)
    \/ \E k \in Calls, address \in QueueWalletInputs : WalletResolved(k, address)
    \/ \E k \in Calls, reply \in QueueRpcReplies : RpcReply(k, reply)
    \/ \E k \in Calls : ProcessReadsIndex(k)
    \/ \E k \in Calls : ProcessDeploysItem(k)
    \/ \E k \in Calls : \E chunk \in QueueChunks(children[k]) :
          events < MaxEvents /\ StdoutData(k, chunk)
    \/ \E k \in Calls, exitState \in QueueExitStates, now \in ClockReadings :
          Close(k, exitState, now)

Spec == Init /\ [][Next]_vars

\* SpecOutput: one call, whose process writes up to MaxChunks chunks of any
\* kind to its stdout and stderr
NextOutput ==
    \/ \E request \in OutputRequests : requests = <<>> /\ MintColorNft(request) /\ UNCHANGED edgeVars
    \/ \E p \in 1..Len(promises) : StartTask(p)
    \/ \E p \in 1..Len(promises) : SettleReaction(p)
    \/ \E k \in Calls, address \in QueueWalletInputs : WalletResolved(k, address)
    \/ \E k \in Calls, reply \in QueueRpcReplies : RpcReply(k, reply)
    \/ \E k \in Calls : ProcessReadsIndex(k)
    \/ \E k \in Calls : ProcessDeploysItem(k)
    \/ \E k \in Calls : \E chunk \in StdoutChunks(children[k]) :
          events < MaxChunks /\ StdoutData(k, chunk)
    \/ \E k \in Calls : events < MaxChunks /\ StderrData(k, LogLine)
    \/ \E k \in Calls, exitState \in ExitStates, now \in ClockReadings :
          Close(k, exitState, now)

SpecOutput == Init /\ [][NextOutput]_vars

\* SpecSpawn: one call under any of the configurations, with any reply to
\* the address-info query, whose process writes up to MaxChunks result lines
InitSpawn ==
    /\ requests = <<>>
    /\ promises = <<>>
    /\ mintQueue = 0
    /\ callers = <<>>
    /\ tasks = <<>>
    /\ children = <<>>
    /\ nextItemIndex = 0
    /\ events = 0
    /\ startOrder = <<>>
    /\ spawnOrder = <<>>
    /\ rpcOrder = <<>>
    /\ config \in Configs
    /\ http = <<>>
    /\ bucket = {}
    /\ s3Commands = <<>>
    /\ uploads = <<>>
    /\ sessions = <<>>
    /\ storeCalls = <<>>
    /\ updates = <<>>
    /\ sent = <<>>
    /\ mints = <<>>
    /\ handlerCalls = <<>>

NextSpawn ==
    \/ \E request \in SampleRequests : requests = <<>> /\ MintColorNft(request) /\ UNCHANGED edgeVars
    \/ \E p \in 1..Len(promises) : StartTask(p)
    \/ \E p \in 1..Len(promises) : SettleReaction(p)
    \/ \E k \in Calls, address \in WalletInputs : WalletResolved(k, address)
    \/ \E k \in Calls, reply \in RpcReplies : RpcReply(k, reply)
    \/ \E k \in Calls : ProcessReadsIndex(k)
    \/ \E k \in Calls : ProcessDeploysItem(k)
    \/ \E k \in Calls : \E chunk \in QueueChunks(children[k]) :
          events < MaxChunks /\ StdoutData(k, chunk)
    \/ \E k \in Calls, exitState \in QueueExitStates, now \in ClockReadings :
          Close(k, exitState, now)

SpecSpawn == InitSpawn /\ [][NextSpawn]_vars

\* SpecGate: up to MaxRequests calls, with any reply to each address-info
\* query, whose processes close without having written anything
NextGate ==
    \/ \E request \in SampleRequests :
          Len(requests) < MaxRequests /\ MintColorNft(request) /\ UNCHANGED edgeVars
    \/ \E p \in 1..Len(promises) : StartTask(p)
    \/ \E p \in 1..Len(promises) : SettleReaction(p)
    \/ \E k \in Calls, address \in QueueWalletInputs : WalletResolved(k, address)
    \/ \E k \in Calls, reply \in RpcReplies : RpcReply(k, reply)
    \/ \E k \in Calls, exitState \in QueueExitStates, now \in ClockReadings :
          Close(k, exitState, now)

SpecGate == Init /\ [][NextGate]_vars

\* SpecHttp: up to MaxRequests POST /mint requests in any interleaving with
\* the mint tasks they start, the minter wallet having an address string and
\* each process writing at most one line
NextHttp ==
    \/ \E body \in HttpBodies : Len(http) < MaxRequests /\ PostMint(body)
    \/ \E h \in 1..Len(http) : Respond(h)
    \/ \E p \in 1..Len(promises) : StartTask(p)
    \/ \E p \in 1..Len(promises) : SettleReaction(p)
    \/ \E k \in Calls : WalletResolved(k, "string")
    \/ \E k \in Calls, reply \in QueueRpcReplies : RpcReply(k, reply)
    \/ \E k \in Calls : ProcessReadsIndex(k)
    \/ \E k \in Calls : ProcessDeploysItem(k)
    \/ \E k \in Calls : \E chunk \in QueueChunks(children[k]) :
          children[k].stdout = <<>> /\ StdoutData(k, chunk)
    \/ \E k \in Calls, exitState \in QueueExitStates, now \in ClockReadings :
          Close(k, exitState, now)

SpecHttp == Init /\ [][NextHttp]_vars

\* SpecUpload: up to MaxUploads calls of uploadColorSvgToMinio, one after
\* another or at once, with MinIO configured or not
InitUpload ==
    /\ requests = <<>>
    /\ promises = <<>>
    /\ mintQueue = 0
    /\ callers = <<>>
    /\ tasks = <<>>
    /\ children = <<>>
    /\ nextItemIndex = 0
    /\ events = 0
    /\ startOrder = <<>>
    /\ spawnOrder = <<>>
    /\ rpcOrder = <<>>
    /\ config \in MinioConfigs \cup {DefaultConfig}
    /\ http = <<>>
    /\ bucket = {}
    /\ s3Commands = <<>>
    /\ uploads = <<>>
    /\ sessions = <<>>
    /\ storeCalls = <<>>
    /\ updates = <<>>
    /\ sent = <<>>
    /\ mints = <<>>
    /\ handlerCalls = <<>>

NextUpload ==
    \/ \E color \in UploadColors :
          Len(uploads) < MaxUploads /\ UploadColorSvgToMinio(color)
    \/ \E u \in 1..Len(uploads), failed \in BOOLEAN : HeadObjectReply(u, failed)
    \/ \E u \in 1..Len(uploads), stored \in BOOLEAN : PutObjectReply(u, stored)

SpecUpload == InitUpload /\ [][NextUpload]_vars

\* SpecMinio: one mint call and one call of uploadColorSvgToMinio, with
\* MinIO configured
InitMinio ==
    /\ requests = <<>>
    /\ promises = <<>>
    /\ mintQueue = 0
    /\ callers = <<>>
    /\ tasks = <<>>
    /\ children = <<>>
    /\ nextItemIndex = 0
    /\ events = 0
    /\ startOrder = <<>>
    /\ spawnOrder = <<>>
    /\ rpcOrder = <<>>
    /\ config \in MinioConfigs
    /\ http = <<>>
    /\ bucket = {}
    /\ s3Commands = <<>>
    /\ uploads = <<>>
    /\ sessions = <<>>
    /\ storeCalls = <<>>
    /\ updates = <<>>
    /\ sent = <<>>
    /\ mints = <<>>
    /\ handlerCalls = <<>>

NextMinio ==
    \/ \E color \in UploadColors : uploads = <<>> /\ UploadColorSvgToMinio(color)
    \/ \E u \in 1..Len(uploads), failed \in BOOLEAN : HeadObjectReply(u, failed)
    \/ \E u \in 1..Len(uploads), stored \in BOOLEAN : PutObjectReply(u, stored)
    \/ \E request \in SampleRequests :
          requests = <<>> /\ MintColorNft(request) /\ UNCHANGED edgeVars
    \/ \E p \in 1..Len(promises) : StartTask(p)
    \/ \E p \in 1..Len(promises) : SettleReaction(p)
    \/ \E k \in Calls : WalletResolved(k, "string")
    \/ \E k \in Calls, reply \in QueueRpcReplies : RpcReply(k, reply)
    \/ \E k \in Calls : ProcessReadsIndex(k)
    \/ \E k \in Calls : ProcessDeploysItem(k)
    \/ \E k \in Calls : \E chunk \in QueueChunks(children[k]) :
          children[k].stdout = <<>> /\ StdoutData(k, chunk)
    \/ \E k \in Calls, exitState \in QueueExitStates, now \in ClockReadings :
          Close(k, exitState, now)

SpecMinio == InitMinio /\ [][NextMinio]_vars

\* SpecStore: up to MaxStoreCalls calls of the methods of one session store
NextStore ==
    \/ \E user \in TelegramUsers, now \in ClockReadings :
          Len(storeCalls) < MaxStoreCalls /\ UpsertUser(user, now)
    \/ \E userId \in {UserSeven, UserEight}, now \in ClockReadings :
          Len(storeCalls) < MaxStoreCalls /\ Touch(userId, now)
    \/ \E userId \in {UserSeven, UserEight}, now \in ClockReadings :
       \E walletAddress \in {JsString(WalletA), JsUndefined} :
          Len(storeCalls) < MaxStoreCalls /\ SetWallet(userId, walletAddress, now)
    \/ \E userId \in {UserSeven, UserEight}, now \in ClockReadings :
       \E color \in {JsString(ColorLower), JsNull} :
          Len(storeCalls) < MaxStoreCalls /\ SetLastColor(userId, color, now)
    \/ \E userId \in {UserSeven, UserEight}, now \in ClockReadings :
       \E mintSummary \in MintSummaries :
          Len(storeCalls) < MaxStoreCalls /\ RecordMint(userId, mintSummary, now)

SpecStore == Init /\ [][NextStore]_vars

\* SpecBot: up to MaxUpdates updates of two users, each mint request
\* acknowledged and settled in any interleaving with the later updates
NextBot ==
    \/ \E update \in BotUpdates, now \in ClockReadings :
          Len(updates) < MaxUpdates /\ PostWebhook(JsUndefined, update, now)
    \/ \E m \in DOMAIN mints : CallMintHandler(m)
    \/ \E m \in DOMAIN mints, mintResult \in MintResults, now \in ClockReadings :
          MintHandlerResolves(m, mintResult, now)
    \/ \E m \in DOMAIN mints : MintHandlerRejects(m, "rpc")

SpecBot == Init /\ [][NextBot]_vars

\* SpecBotLive: SpecBot where the acknowledgement of a mint request settles,
\* sendMessage catching what the transport throws, and requestMint goes on
SpecBotLive ==
    SpecBot /\ \A m \in 1..MaxUpdates : WF_vars(m \in DOMAIN mints /\ CallMintHandler(m))

\* the number of requests the webhook route receives
MaxDeliveries == 2

\* TELEGRAM_WEBHOOK_SECRET of the environment, and another token
SecretToken == <<"s", "3", "c">>

OtherToken == <<"s", "3">>

\* the configurations of the webhook: no secret, a blank one that the trim of
\* env.js leaves empty, and a secret
WebhookConfigs ==
    {DefaultConfig,
     [DefaultConfig EXCEPT !.telegramSecretToken = JsString(<<>>)],
     [DefaultConfig EXCEPT !.telegramSecretToken = JsString(SecretToken)]}

\* the secret-token header of a request: none, a wrong one and the secret
WebhookHeaders == {JsUndefined, JsString(OtherToken), JsString(SecretToken)}

WebhookUpdates ==
    {TextMessage(TelegramUser(UserSeven), CommandWallet \o <<" ">> \o WalletB),
     TextMessage(TelegramUser(UserEight),
                 CommandMint \o <<" ">> \o ColorBare \o <<" ">> \o WalletA),
     WebAppMessage(TelegramUser(UserSeven),
                   [type |-> "object", colour |-> JsString(ColorLower),
                    wallet |-> JsString(WalletB)]),
     TextMessage(TelegramUser(UserSeven), <<"h", "i">>)}

\* SpecWebhook: up to MaxDeliveries requests to the webhook route, with any
\* secret-token header, under any configuration of the secret
InitWebhook ==
    /\ requests = <<>>
    /\ promises = <<>>
    /\ mintQueue = 0
    /\ callers = <<>>
    /\ tasks = <<>>
    /\ children = <<>>
    /\ nextItemIndex = 0
    /\ events = 0
    /\ startOrder = <<>>
    /\ spawnOrder = <<>>
    /\ rpcOrder = <<>>
    /\ config \in WebhookConfigs
    /\ http = <<>>
    /\ bucket = {}
    /\ s3Commands = <<>>
    /\ uploads = <<>>
    /\ sessions = <<>>
    /\ storeCalls = <<>>
    /\ updates = <<>>
    /\ sent = <<>>
    /\ mints = <<>>
    /\ handlerCalls = <<>>

NextWebhook ==
    \/ \E header \in WebhookHeaders, update \in WebhookUpdates, now \in ClockReadings :
          Len(http) < MaxDeliveries /\ PostWebhook(header, update, now)
    \/ \E m \in DOMAIN mints : CallMintHandler(m)
    \/ \E m \in DOMAIN mints, mintResult \in MintResults, now \in ClockReadings :
          MintHandlerResolves(m, mintResult, now)
    \/ \E m \in DOMAIN mints : MintHandlerRejects(m, "rpc")

SpecWebhook == InitWebhook /\ [][NextWebhook]_vars

\* SpecLive: Spec with the promise reactions run as the microtask queue runs
\* them: a reaction that is ready is run
SpecLive ==
    /\ Spec
    /\ WF_vars(\E p \in 1..Len(promises) : StartTask(p))
    /\ WF_vars(\E p \in 1..Len(promises) : SettleReaction(p))

\* SpecQueue: Spec with the requests of a valid and of an invalid colour,
\* whose processes write result lines only
NextQueue ==
    \/ \E request \in {r \in SampleRequests : r.walletAddress = JsString(WalletB)} :
          Len(requests) < MaxRequests /\ MintColorNft(request) /\ UNCHANGED edgeVars
    \/ \E p \in 1..Len(promises) : StartTask(p)
    \/ \E p \in 1..Len(promises) : SettleReaction(p)
    \/ \E k \in Calls, address \in QueueWalletInputs : WalletResolved(k, address)
    \/ \E k \in Calls, reply \in QueueRpcReplies : RpcReply(k, reply)
    \/ \E k \in Calls : ProcessReadsIndex(k)
    \/ \E k \in Calls : ProcessDeploysItem(k)
    \/ \E k \in Calls : \E chunk \in QueueChunks(children[k]) :
          events < MaxEvents /\ children[k].phase = "sent" /\ StdoutData(k, chunk)
    \/ \E k \in Calls, exitState \in QueueExitStates, now \in ClockReadings :
          Close(k, exitState, now)

SpecQueue == Init /\ [][NextQueue]_vars

\* the deploy process of call k is awaited by runDeployScript: Close(k, ...)
\* is enabled with any exit state
Awaited(k) == Running(k) /\ tasks[k].pc = "running"

\* SpecProgress: SpecQueue with the promise reactions run as in SpecLive,
\* where, for every call, getMinterWallet and
\* getAddress settle, the address-info query returns or fails, and the
\* spawned deploy process emits close.  The last is the weak fairness of
\* Close(k, ...), written with its enabling condition Awaited(k).
SpecProgress ==
    /\ SpecQueue
    /\ WF_vars(\E p \in 1..Len(promises) : StartTask(p))
    /\ WF_vars(\E p \in 1..Len(promises) : SettleReaction(p))
    /\ \A k \in 1..MaxRequests :
          /\ WF_vars(k \in Calls /\ \E address \in QueueWalletInputs : WalletResolved(k, address))
          /\ WF_vars(k \in Calls /\ \E reply \in QueueRpcReplies : RpcReply(k, reply))
          /\ \/ []<>(~Awaited(k))
             \/ []<><<\E exitState \in QueueExitStates, now \in ClockReadings :
                        Close(k, exitState, now)>>_vars

(***************************************************************************)
(* The claims.                                                             *)
(***************************************************************************)
\* the calls whose deploy process is active: spawned and not yet closed
ActiveProcesses == {k \in Calls : Running(k)}

\* the mint task of call k has been started by a reaction of the promise
\* enqueueMint returned for it
InsideQueueTask(k) ==
    /\ tasks[k].pc # "queued"
    /\ tasks[k].promise = callers[k]
    /\ promises[callers[k]].task = k
    /\ Settled(promises[callers[k]].src)

\* C1: at most one deploy process is active (spawned and not yet closed) at
\* any instant, and a process is only ever spawned by a started queue task
C1_AtMostOneActiveProcess ==
    /\ Cardinality(ActiveProcesses) <= 1
    /\ \A k \in Calls : children[k].spawned => InsideQueueTask(k)

\* C1 witness: one process is active while a later call waits in the queue
C1_Witness ==
    \E a, b \in Calls : a < b /\ Running(a) /\ tasks[b].pc = "queued"

IsPrefixOfCalls(order) == \A i \in 1..Len(order) : order[i] = i

StrictlyIncreasing(order) ==
    \A i, j \in 1..Len(order) : i < j => order[i] < order[j]

\* C2: tasks start in the order of the mintColorNft calls, processes are
\* spawned in that order, and when the task of a call starts every earlier
\* call's task has ended
C2_SpawnOrderIsSubmissionOrder ==
    /\ IsPrefixOfCalls(startOrder)
    /\ StrictlyIncreasing(spawnOrder)
    /\ \A a, b \in Calls : a < b /\ tasks[b].pc # "queued" => tasks[a].pc = "done"

\* C2 witness: two calls, both of whose processes were spawned
C2_Witness == Len(spawnOrder) >= 2 /\ Len(startOrder) >= 2

Fulfilled(k) == PromiseState(callers[k]) = "fulfilled"

Rejected(k) == PromiseState(callers[k]) = "rejected"

WaitsAfterRejection(k) ==
    IF k \in Calls /\ k > 1
    THEN tasks[k - 1].settled = "rejected" /\ tasks[k].pc = "queued"
    ELSE FALSE

TaskStarted(k) == IF k \in Calls THEN tasks[k].pc # "queued" ELSE FALSE

\* C4: the queue never halts on failure: once the task of a call has
\* rejected, the task of the next call, while it waits in the queue, is
\* started
C4_QueueNeverHalts ==
    \A k \in 2..MaxRequests : WaitsAfterRejection(k) ~> TaskStarted(k)

\* C4 witness: a call's task rejected and the next call's mint succeeded
C4_Witness ==
    \E k \in Calls : k > 1 /\ tasks[k - 1].settled = "rejected" /\ Fulfilled(k)

\* C5: failure isolation: the promise returned to a caller is settled by the
\* caller's own task and by nothing else: it is rejected exactly when that
\* task threw, with the error that task threw, and it is pending as long as
\* that task has not ended
C5_FailureIsolation ==
    \A k \in Calls :
        /\ PromiseState(callers[k]) \in {"pending", "running"} <=> tasks[k].pc # "done"
        /\ Settled(callers[k]) =>
              /\ PromiseState(callers[k]) = tasks[k].settled
              /\ PromiseValue(callers[k]) = tasks[k].result

\* C5 witness: of two calls whose tasks ended, exactly one was rejected
C5_Witness ==
    \E a, b \in Calls : Rejected(a) /\ Fulfilled(b) /\ a < b

\* the colours of the requests as normalizeHexColor is to give them
ExpectedColor(color) ==
    CASE color = JsString(ColorLower) -> <<"#", "F", "F", "0", "0", "A", "B">>
      [] color = JsString(ColorBare) -> <<"#", "4", "4", "5", "5", "6", "6">>
      [] OTHER -> <<>>

LineStarts(out) == {1} \cup {i + 1 : i \in {j \in 1..Len(out) : out[j].t = "nl"}}

\* the position after the last token of the line that begins at b
LineEnd(out, b) ==
    IF \E e \in b..Len(out) : out[e].t = "nl"
    THEN CHOOSE e \in b..Len(out) :
            out[e].t = "nl" /\ \A i \in b..(e - 1) : out[i].t # "nl"
    ELSE Len(out) + 1

\* the positions of the tokens of the line at b that are not white space
InkOf(out, b) == {i \in b..(LineEnd(out, b) - 1) : out[i].t \notin {"sp", "cr", "nl"}}

Least(S) == CHOOSE x \in S : \A y \in S : x <= y

Greatest(S) == CHOOSE x \in S : \A y \in S : x >= y

\* the line at b starts, after white space, with MINT_RESULT=
IsResultLine(out, b) == InkOf(out, b) # {} /\ out[Least(InkOf(out, b))] = RESULT_PREFIX

ResultLines(out) == {b \in LineStarts(out) : IsResultLine(out, b)}

\* the line at b is MINT_RESULT= followed by one JSON text
HasJsonPayload(out, b) ==
    /\ IsResultLine(out, b)
    /\ Cardinality(InkOf(out, b)) = 2
    /\ out[Greatest(InkOf(out, b))].t = "json"

PayloadOf(out, b) == out[Greatest(InkOf(out, b))].json

\* the last MINT_RESULT= line of out carries a JSON object with a numeric
\* itemIndex
HasNumericResult(out) ==
    /\ ResultLines(out) # {}
    /\ LET b == Greatest(ResultLines(out))
       IN  /\ HasJsonPayload(out, b)
           /\ PayloadOf(out, b).type = "object"
           /\ PayloadOf(out, b).itemIndex.type = "number"

\* the close event of the process of call k arrives in this step
Closes(k) == Running(k) /\ children'[k].closed

\* C7: the promise of a call is resolved only in the step that handles the
\* close event of its process, and only if the exit code is 0 and the last
\* MINT_RESULT= line holds JSON with a numeric itemIndex; every other close
\* rejects the promise with an error
C7_SuccessOnlyOnCompleteResult ==
    [][\A k \in Calls :
         /\ (~Fulfilled(k) /\ Fulfilled(k)') =>
               /\ Closes(k)
               /\ children'[k].exit.code = JsNumber(0)
               /\ HasNumericResult(children[k].stdout)
               /\ PromiseValue(callers[k])'.kind = "outcome"
         /\ (Closes(k) /\ ~Fulfilled(k)') =>
               /\ Rejected(k)'
               /\ PromiseValue(callers[k])'.kind = "error"
               /\ \/ children'[k].exit.code # JsNumber(0)
                  \/ ~HasNumericResult(children[k].stdout)]_vars

\* C7 witness: a mint was resolved
C7_Witness ==
    \E k \in Calls : Fulfilled(k) /\ children[k].exit.code = JsNumber(0)

\* the line at b starts with MINT_RESULT=, white space not being skipped
StartsWithPrefix(out, b) == b <= Len(out) /\ out[b] = RESULT_PREFIX

\* C8 as stated: a process that closes with exit code 0 and whose stdout has
\* no line starting with MINT_RESULT= makes the mint reject with the error of
\* the missing result payload
C8_MissingResultPayload_AsStated ==
    [][\A k \in Calls :
         (/\ Closes(k)
          /\ children'[k].exit.code = JsNumber(0)
          /\ \A b \in LineStarts(children[k].stdout) :
                ~StartsWithPrefix(children[k].stdout, b))
         => /\ Rejected(k)'
            /\ PromiseValue(callers[k])'.message
                 = "Mint script did not produce a result payload"]_vars

\* C8 amended: a process that closes with exit code 0 and whose stdout has
\* no line that starts with MINT_RESULT= once the white space around the line
\* is trimmed makes the mint reject with the error of the missing result
\* payload
C8_MissingResultPayload ==
    [][\A k \in Calls :
         (/\ Closes(k)
          /\ children'[k].exit.code = JsNumber(0)
          /\ ResultLines(children[k].stdout) = {})
         => /\ Rejected(k)'
            /\ PromiseValue(callers[k])'.message
                 = "Mint script did not produce a result payload"]_vars

\* C8 witness: a process wrote a log line and closed with code 0, and the
\* mint was rejected for the missing result payload
C8_Witness ==
    \E k \in Calls :
        /\ Rejected(k)
        /\ children[k].exit.code = JsNumber(0)
        /\ PromiseValue(callers[k]).message = "Mint script did not produce a result payload"
        /\ events > 0

\* C9: a process that closes with a non-zero code, or with a null code after
\* a signal, makes the mint reject with the exited-abnormally error, which
\* carries the stdout and stderr captured up to the close event
C9_AbnormalExitCarriesOutput ==
    [][\A k \in Calls :
         (Closes(k) /\ children'[k].exit.code # JsNumber(0))
         => /\ Rejected(k)'
            /\ PromiseValue(callers[k])'.message = "Mint script exited abnormally"
            /\ PromiseValue(callers[k])'.hasOutput
            /\ PromiseValue(callers[k])'.stdout = children[k].stdout
            /\ PromiseValue(callers[k])'.stderr = children[k].stderr]_vars

\* C9 witness: a process that wrote to stdout and stderr was ended by a
\* signal and the mint was rejected
C9_Witness ==
    \E k \in Calls :
        /\ Rejected(k)
        /\ children[k].exit.code = JsNull
        /\ PromiseValue(callers[k]).stdout # <<>>
        /\ PromiseValue(callers[k]).stderr # <<>>

\* the percent-encoding of a timestamp: its colons become %3A
PercentEncodedTimestamp(t) ==
    Concat([i \in 1..Len(t) |-> IF t[i] = ":" THEN <<"%", "3", "A">> ELSE <<t[i]>>])

\* out ends with the line MINT_RESULT=<json>, and json is an object with a
\* numeric itemIndex, a string nftAddress and a string mintedAt
EndsWithFullResult(out) ==
    LET inked == {b \in LineStarts(out) : InkOf(out, b) # {}}
    IN  /\ inked # {}
        /\ HasJsonPayload(out, Greatest(inked))
        /\ LET json == PayloadOf(out, Greatest(inked))
           IN  /\ json.type = "object"
               /\ json.itemIndex.type = "number"
               /\ json.nftAddress.type = "string"
               /\ json.mintedAt.type = "string"

FinalPayload(out) == PayloadOf(out, Greatest({b \in LineStarts(out) : InkOf(out, b) # {}}))

\* C10: when the process exits 0 and its stdout ends with MINT_RESULT=<json>
\* with numeric itemIndex i, string nftAddress a and string mintedAt t, the
\* mint resolves with itemIndex i, nftAddress a and mintedAt t, and with a
\* metadataUri of path /metadata/i whose query contains the percent-encoded t
C10_ResolvesWithPayloadFields ==
    [][\A k \in Calls :
         (/\ Closes(k)
          /\ children'[k].exit.code = JsNumber(0)
          /\ EndsWithFullResult(children[k].stdout))
         => LET json == FinalPayload(children[k].stdout)
                outcome == PromiseValue(callers[k])'
                encoded == PercentEncodedTimestamp(json.mintedAt.s)
            IN  /\ Fulfilled(k)'
                /\ outcome.itemIndex = json.itemIndex.n
                /\ outcome.nftAddress = json.nftAddress
                /\ outcome.mintedAt = json.mintedAt.s
                /\ outcome.metadataUri.ok
                /\ outcome.metadataUri.pathname
                     = <<"/", "m", "e", "t", "a", "d", "a", "t", "a", "/">>
                       \o NumberToString(json.itemIndex.n)
                /\ Contains(outcome.metadataUri.search, encoded)
                /\ encoded # <<>> =>
                     Contains(outcome.metadataUri.search,
                              <<"m", "i", "n", "t", "e", "d", "A", "t", "=">> \o encoded)]_vars

\* C10 witness: a mint was resolved with a mintedAt that needs encoding
C10_Witness ==
    \E k \in Calls :
        /\ Fulfilled(k)
        /\ Contains(PromiseValue(callers[k]).mintedAt, <<":">>)
        /\ Contains(PromiseValue(callers[k]).metadataUri.search, <<"%", "3", "A">>)

(***************************************************************************)
(* The wallet precheck.                                                    *)
(***************************************************************************)
\* the address-info query of call k has been answered, with info or an error
QueryAnswered(k) == tasks[k].info # JsUndefined

\* C11: the precheck is advisory: once the address-info query of a call has
\* succeeded, whatever balance and state it reports, the deploy process of
\* the call (whose colour is a hex colour) is spawned in the same step and
\* the function returns its warnings instead of throwing, and the mint is
\* resolved when that process exits with code 0 and a numeric result
C11_PrecheckIsAdvisory ==
    [][\A k \in Calls :
         /\ (/\ ~QueryAnswered(k) /\ QueryAnswered(k)'
             /\ tasks'[k].info.ok
             /\ normalizeHexColor(requests[k].color).ok)
            => /\ tasks'[k].precheck.ok
               /\ tasks'[k].pc = "running"
               /\ children'[k].spawned /\ ~children'[k].closed
               /\ spawnOrder' = Append(spawnOrder, k)
         /\ (/\ Closes(k)
             /\ children'[k].exit.code = JsNumber(0)
             /\ HasNumericResult(children[k].stdout))
            => Fulfilled(k)']_vars

\* C11 witness: a mint was resolved although the precheck warned of both the
\* balance (0) and the state
C11_Witness ==
    \E k \in Calls :
        /\ Fulfilled(k)
        /\ tasks[k].info.balance = 0
        /\ tasks[k].precheck.warnings = <<"balance", "state">>

\* C12: a call whose address-info query failed is rejected with the
\* MintPreconditionError of code MINTER_WALLET_STATUS_UNAVAILABLE and
\* statusCode 502, and no deploy process is ever spawned for it
C12_RpcErrorRejectsWithoutSpawn ==
    \A k \in Calls :
        (QueryAnswered(k) /\ ~tasks[k].info.ok)
        => /\ Rejected(k)
           /\ PromiseValue(callers[k]).code = "MINTER_WALLET_STATUS_UNAVAILABLE"
           /\ PromiseValue(callers[k]).statusCode = 502
           /\ ~children[k].spawned
           /\ \A i \in 1..Len(spawnOrder) : spawnOrder[i] # k

\* C12 witness: the query of a call failed and the call was rejected
C12_Witness ==
    \E k \in Calls : QueryAnswered(k) /\ ~tasks[k].info.ok /\ Rejected(k)

(***************************************************************************)
(* parseMintResult on the captured stdout.                                 *)
(***************************************************************************)
\* the lines of out that start with MINT_RESULT=, white space not being
\* skipped
LiteralResultLines(out) == {b \in LineStarts(out) : StartsWithPrefix(out, b)}

\* C13 as stated: parseMintResult returns the JSON value of the last line of
\* stdout that starts with the literal MINT_RESULT=
C13_LastResultLineWins_AsStated ==
    \A k \in Calls :
        LET out == children[k].stdout
        IN  (/\ LiteralResultLines(out) # {}
             /\ HasJsonPayload(out, Greatest(LiteralResultLines(out))))
            => /\ parseMintResult(out).ok
               /\ parseMintResult(out).value
                    = PayloadOf(out, Greatest(LiteralResultLines(out)))

\* C13 amended: parseMintResult returns the JSON value of the last line of
\* stdout that starts with MINT_RESULT= once the white space around the line
\* is trimmed; it throws when the text after the prefix on that line is no
\* JSON, whatever the earlier lines hold, and when there is no such line
C13_LastResultLineWins ==
    \A k \in Calls :
        LET out == children[k].stdout
            parsed == parseMintResult(out)
        IN  IF ResultLines(out) = {}
            THEN ~parsed.ok
            ELSE IF HasJsonPayload(out, Greatest(ResultLines(out)))
            THEN parsed.ok /\ parsed.value = PayloadOf(out, Greatest(ResultLines(out)))
            ELSE ~parsed.ok

\* C13 witness: a process has written two result lines with different JSON
\* payloads
C13_Witness ==
    \E k \in Calls :
        LET out == children[k].stdout
        IN  \E a, b \in ResultLines(out) :
                /\ a < b
                /\ HasJsonPayload(out, a) /\ HasJsonPayload(out, b)
                /\ PayloadOf(out, a) # PayloadOf(out, b)
                /\ parseMintResult(out).value = PayloadOf(out, b)

\* C14 as stated: when the last line of stdout that starts with the literal
\* MINT_RESULT= continues with text that is no JSON, the mint rejects with
\* the error of the invalid JSON payload
C14_InvalidJsonPayload_AsStated ==
    [][\A k \in Calls :
         (/\ Closes(k)
          /\ LiteralResultLines(children[k].stdout) # {}
          /\ ~HasJsonPayload(children[k].stdout,
                             Greatest(LiteralResultLines(children[k].stdout))))
         => /\ Rejected(k)'
            /\ PromiseValue(callers[k])'.message
                 = "Mint script produced an invalid JSON payload"]_vars

\* C14 amended: when the process exits with code 0 and the last line of
\* stdout that starts with MINT_RESULT= once the white space around the line
\* is trimmed continues with text that is no JSON, the mint rejects with the
\* error of the invalid JSON payload, which carries neither the message of
\* the missing payload nor that of the abnormal exit, whatever the earlier
\* lines hold
C14_InvalidJsonPayload ==
    [][\A k \in Calls :
         (/\ Closes(k)
          /\ children'[k].exit.code = JsNumber(0)
          /\ ResultLines(children[k].stdout) # {}
          /\ ~HasJsonPayload(children[k].stdout, Greatest(ResultLines(children[k].stdout))))
         => /\ Rejected(k)'
            /\ PromiseValue(callers[k])'.message
                 = "Mint script produced an invalid JSON payload"
            /\ PromiseValue(callers[k])'.message
                 \notin {"Mint script did not produce a result payload",
                         "Mint script exited abnormally"}
            /\ ~PromiseValue(callers[k])'.hasOutput]_vars

\* C14 witness: a process that had deployed its item and written two chunks
\* exited with code 0, and the mint was rejected for the invalid JSON payload
C14_Witness ==
    \E k \in Calls :
        /\ Rejected(k)
        /\ children[k].exit.code = JsNumber(0)
        /\ children[k].phase = "sent"
        /\ events >= 2
        /\ PromiseValue(callers[k]).message = "Mint script produced an invalid JSON payload"

(***************************************************************************)
(* Attempts.                                                               *)
(***************************************************************************)
\* the number of times call k occurs in order
Occurrences(order, k) == Cardinality({i \in 1..Len(order) : order[i] = k})

\* C15: no retry: the task of a call is started at most once, sends at most
\* one address-info query and spawns at most one deploy process, whatever
\* its outcome, and a task that has ended stays ended with the outcome it had
C15_NoAutomaticRetry ==
    \A k \in Calls :
        /\ Occurrences(startOrder, k) <= 1
        /\ Occurrences(rpcOrder, k) <= 1
        /\ Occurrences(spawnOrder, k) <= 1
        /\ tasks[k].settled = "rejected" => tasks[k].pc = "done" /\ ~Running(k)

\* C15 witness: the mint of a call failed after its query and its process,
\* and the task of the next call has ended since
C15_Witness ==
    \E a, b \in Calls :
        /\ a < b
        /\ Rejected(a) /\ children[a].closed
        /\ Occurrences(rpcOrder, a) = 1 /\ Occurrences(spawnOrder, a) = 1
        /\ tasks[b].pc = "done"

(***************************************************************************)
(* The metadata URI.                                                       *)
(***************************************************************************)
\* what the handler of GET /metadata/:itemIndex makes of the metadataUri of
\* the outcome of call k
ParsedBack(k) ==
    metadataHandler(PromiseValue(callers[k]).metadataUri.pathname,
                    PromiseValue(callers[k]).metadataUri.search)

\* the mint of call k was resolved, for a request with a wallet and a numeric
\* Telegram id, with a mintedAt that is not empty
ResolvedWithAllValues(k) ==
    /\ Fulfilled(k)
    /\ requests[k].walletAddress.type = "string" /\ requests[k].walletAddress.s # <<>>
    /\ requests[k].telegramUserId.type = "number"
    /\ PromiseValue(callers[k]).mintedAt # <<>>

\* C16 as stated: the handler of GET /metadata/:itemIndex gets back, from
\* the URI buildMetadataUri built, the same itemIndex, colour, wallet,
\* telegramUserId and mintedAt
C16_MetadataUriRoundTrip_AsStated ==
    \A k \in Calls :
        ResolvedWithAllValues(k) =>
            /\ ParsedBack(k).status = 200
            /\ ParsedBack(k).itemIndex = NumberToString(PromiseValue(callers[k]).itemIndex)
            /\ ParsedBack(k).color = PromiseValue(callers[k]).color
            /\ ParsedBack(k).walletAddress = requests[k].walletAddress
            /\ ParsedBack(k).telegramUserId = requests[k].telegramUserId
            /\ ParsedBack(k).mintedAt = JsString(PromiseValue(callers[k]).mintedAt)

\* the address is in the bounceable, URL-safe form
BounceableUrlSafe(s) == s[1] \in {"E", "k"} /\ s[3] \notin {"+", "/"}

\* two addresses of the same account on the same kind of network
SameAccount(a, b) ==
    /\ (a[1] \in {"E", "U"}) = (b[1] \in {"E", "U"})
    /\ a[2] = b[2]
    /\ \/ a[3] = b[3]
       \/ {a[3], b[3]} = {"+", "-"}
       \/ {a[3], b[3]} = {"/", "_"}

\* C16 amended: when the wallet is a valid TON address, the handler gets
\* back the same itemIndex (in decimal), colour, telegramUserId and mintedAt,
\* and the wallet in its bounceable URL-safe form, which is the wallet given
\* when that was in this form
C16_MetadataUriRoundTrip ==
    \A k \in Calls :
        (ResolvedWithAllValues(k) /\ IsTonAddress(requests[k].walletAddress.s)) =>
            /\ ParsedBack(k).status = 200
            /\ ParsedBack(k).itemIndex = NumberToString(PromiseValue(callers[k]).itemIndex)
            /\ ParsedBack(k).color = PromiseValue(callers[k]).color
            /\ ParsedBack(k).walletAddress.type = "string"
            /\ BounceableUrlSafe(ParsedBack(k).walletAddress.s)
            /\ SameAccount(ParsedBack(k).walletAddress.s, requests[k].walletAddress.s)
            /\ BounceableUrlSafe(requests[k].walletAddress.s)
                 => ParsedBack(k).walletAddress = requests[k].walletAddress
            /\ ParsedBack(k).telegramUserId = requests[k].telegramUserId
            /\ ParsedBack(k).mintedAt = JsString(PromiseValue(callers[k]).mintedAt)

\* C16 witness: the URI of a resolved mint whose wallet needs encoding and
\* whose mintedAt needs encoding was parsed back
C16_Witness ==
    \E k \in Calls :
        /\ ResolvedWithAllValues(k)
        /\ requests[k].walletAddress = JsString(WalletBase64)
        /\ Contains(PromiseValue(callers[k]).metadataUri.search, <<"%", "2", "B">>)
        /\ Contains(PromiseValue(callers[k]).mintedAt, <<":">>)
        /\ ParsedBack(k).status = 200

ParamColor == <<"c", "o", "l", "o", "r">>

ParamWallet == <<"w", "a", "l", "l", "e", "t">>

ParamTg == <<"t", "g">>

ParamMintedAt == <<"m", "i", "n", "t", "e", "d", "A", "t">>

\* C17: the metadataUri of a resolved mint is {baseUrl}/metadata/{itemIndex}
\* with the parameter color holding the six hex digits without #, the
\* parameter wallet exactly when the request has a wallet address (a string
\* that is not empty), the parameter tg exactly when the request has a
\* telegramUserId (anything but undefined and null, 0 included) and the
\* parameter mintedAt exactly when mintedAt is not empty, each holding the
\* value given, and with no other parameter
C17_MetadataUriParameters ==
    \A k \in Calls :
        Fulfilled(k) =>
            LET outcome == PromiseValue(callers[k])
                uri == outcome.metadataUri
                names == QueryNames(uri.search)
                hasWallet == /\ requests[k].walletAddress.type = "string"
                             /\ requests[k].walletAddress.s # <<>>
                hasTg == requests[k].telegramUserId.type \notin {"undefined", "null"}
            IN  /\ uri.ok
                /\ uri.origin = config.backendBaseUrl
                /\ uri.pathname = MetadataPath \o NumberToString(outcome.itemIndex)
                /\ names \subseteq {ParamColor, ParamWallet, ParamTg, ParamMintedAt}
                /\ ParamColor \in names
                /\ QueryValue(uri.search, ParamColor) = JsString(Tail(outcome.color))
                /\ Len(Tail(outcome.color)) = HexColorLen
                /\ \A i \in 1..HexColorLen : Tail(outcome.color)[i] \in HexDigits
                /\ ParamWallet \in names <=> hasWallet
                /\ hasWallet => QueryValue(uri.search, ParamWallet) = requests[k].walletAddress
                /\ ParamTg \in names <=> hasTg
                /\ hasTg => QueryValue(uri.search, ParamTg)
                              = JsString(NumberToString(requests[k].telegramUserId.n))
                /\ ParamMintedAt \in names <=> outcome.mintedAt # <<>>
                /\ outcome.mintedAt # <<>>
                     => QueryValue(uri.search, ParamMintedAt) = JsString(outcome.mintedAt)

\* C17 witness: a resolved mint for a request with a wallet and the
\* telegramUserId 0, whose URI has the parameters wallet and tg
C17_Witness ==
    \E k \in Calls :
        /\ Fulfilled(k)
        /\ requests[k].telegramUserId = JsNumber(0)
        /\ QueryValue(PromiseValue(callers[k]).metadataUri.search, ParamTg)
             = JsString(<<"0">>)
        /\ ParamWallet \in QueryNames(PromiseValue(callers[k]).metadataUri.search)

(***************************************************************************)
(* The command line and the environment of the deploy process.             *)
(***************************************************************************)
\* the endpoint known as the default of a network
KnownDefaultEndpoint(network) ==
    IF network = "testnet" THEN "https://testnet.toncenter.com/api/v2/jsonRPC"
    ELSE "https://toncenter.com/api/v2/jsonRPC"

\* the arguments of a process between the network flag and --tonconnect
CustomEndpointFlags(args) == SubSeq(args, 4, Len(args) - 3)

C19_SpawnWithMnemonicFlag_AsStated ==
    \A k \in Calls :
        (/\ children[k].spawned
         /\ config.tonNetwork = "testnet"
         /\ config.tonEndpoint = KnownDefaultEndpoint("testnet"))
        => /\ children[k].command = "npx"
           /\ children[k].args = <<"blueprint", "run", "--testnet", "--mnemonic",
                                   "deployNftItem", config.collectionAddress>>
           /\ "WALLET_MNEMONIC" \in DOMAIN children[k].env
           /\ children[k].env["WALLET_MNEMONIC"] = Join(config.mnemonicWords, " ")
           /\ Len(config.mnemonicWords) = MnemonicLength
           /\ "WALLET_VERSION" \in DOMAIN children[k].env
           /\ children[k].env["WALLET_VERSION"] = config.walletVersion

\* the words of the mnemonic and the mnemonic as one text
MnemonicTexts ==
    {config.mnemonicWords[i] : i \in 1..Len(config.mnemonicWords)}
    \cup {Join(config.mnemonicWords, " ")}

\* the words an argument list is made of that come from no configuration
ArgumentWords ==
    {"blueprint", "run", "--testnet", "--mainnet", "--custom", "--custom-type",
     "--custom-version", "v2", "--custom-key", "--tonconnect", "deployNftItem"}

\* the environment of the process of call k carries the mnemonic, the wallet
\* version, the network, the endpoint and the owner, colour and user id of
\* the request of the call
EnvironmentCarriesMintData(k) ==
    /\ children[k].env["TON_WALLET_MNEMONIC"] = Join(config.mnemonicWords, " ")
    /\ children[k].env["TON_WALLET_VERSION"] = config.walletVersion
    /\ children[k].env["TON_NETWORK"] = config.tonNetwork
    /\ children[k].env["TON_ENDPOINT"] = config.tonEndpoint
    /\ children[k].env["TON_COLOURS_ITEM_OWNER"] = requests[k].walletAddress
    /\ children[k].env["TON_COLOURS_ITEM_COLOR"] = ExpectedColor(requests[k].color)
    /\ children[k].env["TON_COLOURS_ITEM_TELEGRAM_ID"]
         = NumberToString(requests[k].telegramUserId.n)

\* C20 as stated: no argument of a deploy process is a word of the mnemonic
\* or the mnemonic, and the mnemonic, owner, colour, user id, wallet version,
\* network and endpoint are in the environment of the child and in no
\* argument
C20_SecretsOnlyInEnvironment_AsStated ==
    \A k \in Calls :
        children[k].spawned =>
            /\ EnvironmentCarriesMintData(k)
            /\ \A i \in 1..Len(children[k].args) :
                  /\ children[k].args[i] \notin MnemonicTexts
                  /\ children[k].args[i] \in ArgumentWords \cup {config.collectionAddress}

\* C20 amended: no argument of a deploy process is a word of the mnemonic or
\* the mnemonic; the mnemonic, owner, colour, user id and wallet version are
\* in the environment of the child and in no argument: every argument is a
\* fixed word, the collection address or, among the custom endpoint flags,
\* the endpoint, the network or the API key; the network and the endpoint
\* are in the environment as well
C20_SecretsOnlyInEnvironment ==
    \A k \in Calls :
        children[k].spawned =>
            /\ EnvironmentCarriesMintData(k)
            /\ \A i \in 1..Len(children[k].args) :
                  /\ children[k].args[i] \notin MnemonicTexts
                  /\ children[k].args[i] # config.walletVersion
                  /\ \/ children[k].args[i] \in ArgumentWords \cup {config.collectionAddress}
                     \/ /\ i \in 4..(Len(children[k].args) - 3)
                        /\ config.tonEndpoint # KnownDefaultEndpoint(config.tonNetwork)
                        /\ \/ children[k].args[i] \in {config.tonEndpoint, config.tonNetwork}
                           \/ /\ config.tonApiKey.type = "string"
                              /\ children[k].args[i] = config.tonApiKey.s

\* C20 witness: a process was spawned with custom endpoint flags and an API
\* key among its arguments, and with the mnemonic in its environment
C20_Witness ==
    \E k \in Calls :
        /\ children[k].spawned
        /\ \E i \in 1..Len(children[k].args) : children[k].args[i] = "--custom-key"
        /\ children[k].env["TON_WALLET_MNEMONIC"] = Join(config.mnemonicWords, " ")

(***************************************************************************)
(* The precheck and the queue.                                             *)
(***************************************************************************)
\* C21 as stated: the precheck of a request has run by the time the request
\* is on the queue: every call that was enqueued has had its address-info
\* query answered
C21_PrecheckBeforeEnqueue_AsStated ==
    \A k \in Calls : QueryAnswered(k)

\* C21 amended: the precheck of a request runs inside its queued task, after
\* the request was enqueued, so it waits for the earlier requests: the
\* address-info query of a call is sent only once its task has started, and
\* by then the task of every earlier call has ended and its process is closed
C21_PrecheckInsideQueuedTask ==
    \A k \in Calls :
        Occurrences(rpcOrder, k) > 0
        => /\ Occurrences(startOrder, k) > 0
           /\ tasks[k].pc # "queued"
           /\ \A j \in Calls : j < k => tasks[j].pc = "done" /\ ~Running(j)

\* C21 witness: the query of the second call was sent, after the process of
\* the first call was spawned and closed
C21_Witness ==
    \E a, b \in Calls :
        /\ a < b
        /\ children[a].closed
        /\ Occurrences(rpcOrder, b) > 0

\* a call is on the queue behind the running process of
\* an earlier call, and its address-info query has not been sent
C21_QueuedBehindProcess ==
    \E a, b \in Calls :
        /\ a < b
        /\ Running(a)
        /\ tasks[b].pc = "queued"
        /\ Occurrences(rpcOrder, b) = 0
        /\ ~QueryAnswered(b)

\* the balance below which the precheck warns: the mint value and the safety
\* buffer
RequiredBalance ==
    LET tenth == config.collectionMintValueTon \div 10
    IN  config.collectionMintValueTon + (IF tenth > 20000000 THEN tenth ELSE 20000000)

\* C22: no status is cached between attempts: a call whose precheck has run
\* or whose process was spawned has sent exactly one address-info query of
\* its own, which was answered, and the balance, the state and the warnings
\* of its precheck are those of the reply to that query; no call sends a
\* second query
C22_StatusNeverCached ==
    \A k \in Calls :
        /\ Occurrences(rpcOrder, k) <= 1
        /\ (tasks[k].precheck # JsUndefined \/ children[k].spawned)
           => /\ Occurrences(rpcOrder, k) = 1
              /\ QueryAnswered(k)
              /\ tasks[k].precheck # JsUndefined
              /\ tasks[k].precheck.ok = tasks[k].info.ok
              /\ tasks[k].info.ok
                 => /\ tasks[k].precheck.balanceNano = tasks[k].info.balance
                    /\ tasks[k].precheck.state
                         = (IF tasks[k].info.state = "absent" THEN "unknown"
                            ELSE tasks[k].info.state)
                    /\ Contains(tasks[k].precheck.warnings, <<"balance">>)
                         <=> tasks[k].info.balance < RequiredBalance
                    /\ Contains(tasks[k].precheck.warnings, <<"state">>)
                         <=> tasks[k].info.state \notin {"active", "uninitialized"}

\* C22 witness: two calls got different balances and states from their
\* queries, and the process of the later one was spawned
C22_Witness ==
    \E a, b \in Calls :
        /\ a < b
        /\ QueryAnswered(a) /\ tasks[a].info.ok
        /\ QueryAnswered(b) /\ tasks[b].info.ok
        /\ tasks[a].info.balance > tasks[b].info.balance
        /\ tasks[a].info.state # tasks[b].info.state
        /\ tasks[b].precheck.warnings # <<>>
        /\ children[b].spawned

(***************************************************************************)
(* A process that does not close.                                          *)
(***************************************************************************)
\* the task of call k is held by its running process: the task is not
\* settled, the promise of the call is pending, and the task of no later
\* call has started
HeldByProcess(k) ==
    /\ tasks[k].pc = "running"
    /\ tasks[k].settled = "pending"
    /\ ~Settled(callers[k])
    /\ \A j \in Calls :
          j > k => /\ tasks[j].pc = "queued"
                   /\ Occurrences(startOrder, j) = 0
                   /\ ~Settled(callers[j])

\* C25: nothing but the close event ends the wait for a process: as long as
\* the process of a call has not closed, the task of the call is not settled
\* and no task submitted after it is started, and the only step that settles
\* the task is the one in which the process closes
C25_StuckProcessStallsQueue ==
    [][\A k \in Calls :
         /\ Running(k) => HeldByProcess(k)
         /\ (k \in DOMAIN children' /\ Running(k)') => HeldByProcess(k)'
         /\ (Running(k) /\ tasks'[k].pc # "running") => children'[k].closed]_vars

\* C25 witness: a process that has written its result has not closed, and
\* the call submitted after it still waits on the queue
C25_Witness ==
    \E a, b \in Calls :
        /\ a < b
        /\ Running(a)
        /\ children[a].phase = "sent"
        /\ events = MaxEvents
        /\ tasks[b].pc = "queued"
        /\ ~Settled(callers[b])

(***************************************************************************)
(* POST /mint.                                                             *)
(***************************************************************************)
Exchanges == 1..Len(http)

\* the error POST /mint caught for exchange h: the one validation threw, or
\* the one mintColorNft was rejected with
CaughtError(h) ==
    IF http[h].call = 0 THEN ValidationError(http[h].body)
    ELSE PromiseValue(callers[http[h].call])

OutsideNonNegativeSafeIntegers(value) ==
    \/ Number(value).type \in {"fraction", "beyondSafe"}
    \/ Number(value).type = "number" /\ Number(value).n < 0

\* C24 as stated: mintColorNft is called from POST /mint only with a
\* telegramUserId that is a safe integer and not below zero, and a request
\* whose telegramUserId is below zero, has a fraction or is outside the safe
\* integers gets an error response without a call of mintColorNft
C24_OnlyNonNegativeSafeIds_AsStated ==
    \A h \in Exchanges :
        /\ http[h].call # 0
           => /\ requests[http[h].call].telegramUserId.type = "number"
              /\ requests[http[h].call].telegramUserId.n >= 0
        /\ OutsideNonNegativeSafeIntegers(http[h].body.telegramUserId)
           => http[h].call = 0 /\ http[h].status = 500

(***************************************************************************)
(* The uploads to MinIO.                                                   *)
(***************************************************************************)
\* the six hex digits of a colour, in upper case, whatever the letter case,
\* the '#' and the white space it was written with
ColourDigits(color) == ToUpperCase(RemoveFirstHash(Trim(color.s)))

\* upload b was called after upload a had returned a URL, for the same colour
LaterSameColour(a, b) ==
    /\ a \in uploads[b].after
    /\ ColourDigits(uploads[a].color) = ColourDigits(uploads[b].color)

\* the PutObject commands sent by upload u
PutObjectsOf(u) ==
    {i \in 1..Len(s3Commands) :
        s3Commands[i].name = "PutObject" /\ s3Commands[i].upload = u}

Finished(u) == uploads[u].pc \in {"returned", "thrown"}

\* C27 as stated: once an upload has succeeded for a colour, every later
\* call for the same colour, once it has ended, has found the object under
\* the key svgs/RRGGBB.svg, has sent no PutObject and has returned the same
\* URL
C27_UploadDeduplication_AsStated ==
    \A a, b \in 1..Len(uploads) :
        (LaterSameColour(a, b) /\ Finished(b))
        => /\ uploads[b].pc = "returned"
           /\ uploads[b].key = <<"s", "v", "g", "s", "/">>
                               \o ColourDigits(uploads[b].color)
                               \o <<".", "s", "v", "g">>
           /\ uploads[b].key = uploads[a].key
           /\ uploads[b].key \in bucket
           /\ PutObjectsOf(b) = {}
           /\ uploads[b].url = uploads[a].url

\* C27 amended: once an upload has succeeded for a colour, every later call
\* for the same colour asks for the object under the same key
\* svgs/RRGGBB.svg and never sends a PutObject; unless its HeadObject request
\* fails with an error other than not-found, in which case it throws that
\* error, it finds the object and returns the same URL
C27_UploadDeduplication ==
    \A a, b \in 1..Len(uploads) :
        LaterSameColour(a, b)
        => /\ uploads[b].key = <<"s", "v", "g", "s", "/">>
                               \o ColourDigits(uploads[b].color)
                               \o <<".", "s", "v", "g">>
           /\ uploads[b].key = uploads[a].key
           /\ uploads[b].key \in bucket
           /\ PutObjectsOf(b) = {}
           /\ uploads[b].pc \in {"head", "returned", "thrown"}
           /\ uploads[b].pc = "returned" => uploads[b].url = uploads[a].url
           /\ uploads[b].pc = "thrown" => uploads[b].message = "HeadObject failed"

\* C27 witness: a colour was uploaded with '#' and lower-case letters, and a
\* later call for the colour written in another way returned the same URL
\* without a PutObject
C27_Witness ==
    \E a, b \in 1..Len(uploads) :
        /\ LaterSameColour(a, b)
        /\ uploads[a].color # uploads[b].color
        /\ PutObjectsOf(a) # {}
        /\ uploads[b].pc = "returned"
        /\ uploads[b].url = uploads[a].url

\* the key of the image of the colour that call k mints
ImageKeyOf(k) == generateObjectKey(JsString(children[k].env.TON_COLOURS_ITEM_COLOR))

\* C26 as stated: with MinIO configured, by the time the deploy process of a
\* mint request is spawned the request has had the SVG of its colour
\* uploaded: a HeadObject or PutObject command for its key was sent and the
\* object is in the bucket
C26_UploadBeforeMint_AsStated ==
    isMinioConfigured
    => \A k \in Calls :
          children[k].spawned
          => /\ ImageKeyOf(k) \in bucket
             /\ \E i \in 1..Len(s3Commands) : s3Commands[i].key = ImageKeyOf(k)

\* a mint was resolved with MinIO configured while the bucket held no image
\* of its colour
C26_MintedWithoutImage ==
    \E k \in Calls :
        /\ isMinioConfigured
        /\ Fulfilled(k)
        /\ ImageKeyOf(k) \notin bucket

(***************************************************************************)
(* The session store.                                                      *)
(***************************************************************************)
\* the positions in storeCalls of the recordMint calls for a user
RecordMintCalls(userId) ==
    {i \in 1..Len(storeCalls) :
        storeCalls[i].op = "recordMint" /\ storeCalls[i].userId = userId}

\* the argument of the latest recordMint call for a user
LatestMintSummary(userId) ==
    storeCalls[CHOOSE i \in RecordMintCalls(userId) :
                   \A j \in RecordMintCalls(userId) : j <= i].argument

\* what a field of a summary is for an argument: the field of the argument,
\* or null when the argument has none
GivenOrNull(argument, field) ==
    IF argument = JsUndefined \/ argument[field] = JsUndefined THEN JsNull
    ELSE argument[field]

\* C30: whatever calls were made of the store's methods, the totalMints of
\* every session is the number of recordMint calls for its user, and the
\* lastMint of a user with such calls is the summary of the latest of them:
\* its fields are those of the argument, null where the argument has none,
\* with mintedAt and timestamp standing in for each other, and the clock for
\* both; a user without such calls has no lastMint
C30_TotalMintsCountsRecordMint ==
    \A userId \in DOMAIN sessions :
        /\ sessions[userId].totalMints = Cardinality(RecordMintCalls(userId))
        /\ RecordMintCalls(userId) = {} => sessions[userId].lastMint = JsNull
        /\ RecordMintCalls(userId) # {}
           => LET argument == LatestMintSummary(userId)
                  lastMint == sessions[userId].lastMint
              IN  /\ \A f \in {"itemIndex", "metadataUri", "nftAddress", "color",
                               "ownerAddress", "source"} :
                        lastMint[f] = GivenOrNull(argument, f)
                  /\ lastMint.mintedAt
                       = (IF GivenOrNull(argument, "mintedAt") # JsNull
                          THEN argument.mintedAt
                          ELSE IF GivenOrNull(argument, "timestamp") # JsNull
                          THEN argument.timestamp
                          ELSE sessions[userId].updatedAt)
                  /\ lastMint.timestamp
                       = (IF GivenOrNull(argument, "timestamp") # JsNull
                          THEN argument.timestamp
                          ELSE lastMint.mintedAt)

\* C30 witness: two mints were recorded for a user between other calls, and
\* the session has the item of the second
C30_Witness ==
    \E userId \in DOMAIN sessions :
        /\ Cardinality(RecordMintCalls(userId)) = 2
        /\ sessions[userId].totalMints = 2
        /\ storeCalls[Len(storeCalls)].op # "recordMint"
        /\ sessions[userId].lastMint.itemIndex = JsNumber(43)


\* ---------------------------------------------------------------------------
\* C28 and C29: the Telegram bot

\* the text handleMessage reads a command from
TextOf(update) ==
    Nullish(IF update.kind = "callback_query" THEN update.data ELSE JsUndefined,
            Nullish(update.text, JsString(<<>>)))

\* the first of the named properties of a payload that is neither null nor undefined
FirstGiven(parsed, fields) ==
    LET given == {i \in DOMAIN fields :
                     /\ fields[i] \in DOMAIN parsed
                     /\ parsed[fields[i]].type \notin {"undefined", "null"}}
    IN  IF given = {} THEN JsNull
        ELSE parsed[fields[CHOOSE i \in given : \A j \in given : i <= j]]

\* the mint an update of a user asks for: /mint with a colour, or a mini app
\* payload that is an object; with the colour and the wallet it gives
MintRequestOf(update) ==
    LET command == parseCommand(TextOf(update))
        sender == update.from.id.type = "number" /\ update.chat.type = "number"
    IN  IF sender /\ update.web_app_data.type = "object"
        THEN [asked |-> TRUE,
              colourInput |-> FirstGiven(update.web_app_data,
                                  <<"color", "colour", "hex", "hexColor", "hex_colour">>),
              walletOverride |-> FirstGiven(update.web_app_data,
                                     <<"walletAddress", "wallet", "owner">>)]
        ELSE IF /\ sender
                /\ update.web_app_data.type = "undefined"
                /\ command.ok
                /\ command.command = CommandMint
                /\ command.args # <<>>
        THEN [asked |-> TRUE, colourInput |-> JsString(command.args[1]),
              walletOverride |-> IF Len(command.args) >= 2 THEN JsString(command.args[2])
                                 ELSE JsNull]
        ELSE [asked |-> FALSE, colourInput |-> JsNull, walletOverride |-> JsNull]

\* the wallet of the user's session, null without one
StoredWallet(userId) ==
    IF userId \in DOMAIN sessions THEN sessions[userId].walletAddress ELSE JsNull

IsHexColour(v) ==
    /\ v.type = "string"
    /\ Len(v.s) = 7
    /\ v.s[1] = "#"
    /\ \A i \in 2..7 : v.s[i] \in HexDigits /\ ToUpperChar(v.s[i]) = v.s[i]

IsWallet(v) == v.type = "string" /\ IsTonAddress(v.s)

MintErrorTexts ==
    {"Invalid colour value", "I need a TON wallet address to mint.",
     "Invalid wallet address", "The mini app payload is missing the colour value."}

\* handleMessage has run on an update: only a valid mint request starts a mint
HandledUpdateStep ==
    updates' # updates =>
        LET update == updates'[Len(updates')]
            asks == MintRequestOf(update)
            walletSource == Nullish(asks.walletOverride, StoredWallet(update.from.id))
        IN  /\ handlerCalls' = handlerCalls
            /\ IF /\ asks.asked
                  /\ assertHexColor(asks.colourInput).ok
                  /\ assertTonAddress(walletSource).ok
               THEN /\ Len(mints') = Len(mints) + 1
                    /\ mints'[Len(mints')].pc = "acknowledging"
                    /\ mints'[Len(mints')].request.color
                           = JsString(assertHexColor(asks.colourInput).value)
                    /\ mints'[Len(mints')].request.walletAddress
                           = JsString(assertTonAddress(walletSource).value)
               ELSE /\ mints' = mints
                    /\ asks.asked =>
                          /\ Len(sent') = Len(sent) + 1
                          /\ sent'[Len(sent')].text \in MintErrorTexts
                          /\ sent'[Len(sent')].chat = update.chat

\* the mint handler is called: once for a started mint, with its colour and wallet
HandlerCallStep ==
    handlerCalls' # handlerCalls =>
        /\ Len(handlerCalls') = Len(handlerCalls) + 1
        /\ SubSeq(handlerCalls', 1, Len(handlerCalls)) = handlerCalls
        /\ LET call == handlerCalls'[Len(handlerCalls')]
           IN  /\ call.mint \in DOMAIN mints
               /\ mints[call.mint].pc = "acknowledging"
               /\ mints'[call.mint].pc # "acknowledging"
               /\ call.color = mints[call.mint].request.color
               /\ call.walletAddress = mints[call.mint].request.walletAddress
               /\ IsHexColour(call.color)
               /\ IsWallet(call.walletAddress)

\* C28: the bot goes on to the mint handler only for a request whose colour
\* parses as a hex colour and whose wallet, the one it gives or else the one
\* of the user's session, is a TON address, and the handler is called with
\* that colour and that wallet, both valid; for any other mint request it
\* sends one error message and starts no mint, and an update that asks for
\* no mint starts none
C28_HandlerOnlyForValidRequest == [][HandledUpdateStep /\ HandlerCallStep]_vars

\* the handler was called for one request, and another request, with a wallet
\* that is no TON address, was answered with the error message
C28_Witness ==
    /\ handlerCalls # <<>>
    /\ \E i \in DOMAIN sent :
          /\ sent[i].text = "Invalid wallet address"
          /\ MintRequestOf(updates[sent[i].update]).asked
          /\ \A m \in DOMAIN mints : mints[m].update # sent[i].update


\* the /wallet command of a user with an address that is a TON address
WalletCommandOf(update) ==
    LET command == parseCommand(TextOf(update))
    IN  IF /\ update.from.id.type = "number"
           /\ update.chat.type = "number"
           /\ update.web_app_data.type = "undefined"
           /\ command.ok
           /\ command.command = CommandWallet
           /\ command.args # <<>>
        THEN [given |-> TRUE, valid |-> IsTonAddress(Trim(command.args[1])),
              address |-> command.args[1]]
        ELSE [given |-> FALSE, valid |-> FALSE, address |-> <<>>]

\* the update is of the user and names a wallet: a /wallet command with an
\* argument, or a mint request with a wallet of its own
NamesWallet(update, userId) ==
    /\ update.from.id = userId
    /\ \/ WalletCommandOf(update).given
       \/ MintRequestOf(update).asked /\ MintRequestOf(update).walletOverride # JsNull

\* update is a valid /wallet command, the latest update of its user to name a wallet
LatestWalletCommand(i) ==
    /\ WalletCommandOf(updates[i]).valid
    /\ \A k \in (i + 1)..Len(updates) : ~NamesWallet(updates[k], updates[i].from.id)

\* a valid /wallet command has been handled: the session of its user holds
\* the normalised address
WalletSavedStep ==
    updates' # updates =>
        LET update == updates'[Len(updates')]
        IN  WalletCommandOf(update).valid =>
                /\ update.from.id \in DOMAIN sessions'
                /\ sessions'[update.from.id].walletAddress
                       = JsString(AddressToString(Trim(WalletCommandOf(update).address)))

\* /mint <colour> without an address has been handled, from a user whose
\* latest update naming a wallet was a valid /wallet command: the mint is
\* started for the address of that command, the user and the colour
MintWithSavedWalletStep ==
    updates' # updates =>
        LET update == updates'[Len(updates')]
            asks == MintRequestOf(update)
        IN  \A i \in DOMAIN updates :
                /\ updates[i].from.id = update.from.id
                /\ LatestWalletCommand(i)
                /\ asks.asked
                /\ update.web_app_data.type = "undefined"
                /\ asks.walletOverride = JsNull
                /\ assertHexColor(asks.colourInput).ok
                => /\ sessions[update.from.id].walletAddress
                          = JsString(AddressToString(Trim(WalletCommandOf(updates[i]).address)))
                   /\ Len(mints') = Len(mints) + 1
                   /\ mints'[Len(mints')].pc = "acknowledging"
                   /\ mints'[Len(mints')].update = Len(updates')
                   /\ mints'[Len(mints')].request.walletAddress
                          = sessions[update.from.id].walletAddress
                   /\ mints'[Len(mints')].request.telegramUserId = update.from.id
                   /\ mints'[Len(mints')].request.color
                          = JsString(assertHexColor(asks.colourInput).value)

\* the mint handler has been called for the mint, with its wallet, user and colour
HandlerCalledFor(m) ==
    \E c \in DOMAIN handlerCalls :
        /\ handlerCalls[c].mint = m
        /\ handlerCalls[c].walletAddress = mints[m].request.walletAddress
        /\ handlerCalls[c].telegramUserId = mints[m].request.telegramUserId
        /\ handlerCalls[c].color = mints[m].request.color

\* C29: a valid /wallet <address> leaves the normalised address in the session
\* of its user, and a later /mint <colour> without an address from that user,
\* no update of the user naming another wallet in between, starts a mint for
\* exactly that address, that user's id and the normalised colour, and the
\* mint handler is called with them
C29_MintUsesSavedWallet ==
    /\ [][WalletSavedStep /\ MintWithSavedWalletStep]_vars
    /\ \A m \in 1..MaxUpdates :
          (m \in DOMAIN mints) ~> (m \in DOMAIN mints /\ HandlerCalledFor(m))

\* /wallet with a non-bounceable address, then /mint with a colour alone from
\* the same user, and the handler called with the bounceable form of the address
C29_Witness ==
    \E i, j \in DOMAIN updates, c \in DOMAIN handlerCalls :
        /\ i < j
        /\ WalletCommandOf(updates[i]).valid
        /\ AddressToString(Trim(WalletCommandOf(updates[i]).address))
               # WalletCommandOf(updates[i]).address
        /\ updates[j].from.id = updates[i].from.id
        /\ MintRequestOf(updates[j]).asked
        /\ MintRequestOf(updates[j]).walletOverride = JsNull
        /\ mints[handlerCalls[c].mint].update = j
        /\ handlerCalls[c].walletAddress
               = JsString(AddressToString(Trim(WalletCommandOf(updates[i]).address)))
        /\ handlerCalls[c].telegramUserId = updates[i].from.id


\* ---------------------------------------------------------------------------
\* C31: upsertUser on an existing session

\* the value a profile field has after an update that gives it, or does not
ProfileAfter(supplied, previous) ==
    IF supplied.type \in {"undefined", "null"} THEN previous ELSE supplied

\* upsertUser has been called for a user who has a session
UpsertExistingStep ==
    (/\ Len(storeCalls') = Len(storeCalls) + 1
     /\ storeCalls'[Len(storeCalls')].op = "upsertUser"
     /\ storeCalls'[Len(storeCalls')].userId \in DOMAIN sessions)
    => LET user == storeCalls'[Len(storeCalls')].argument
           before == sessions[user.id]
           after == sessions'[user.id]
       IN  /\ DOMAIN sessions' = DOMAIN sessions
           /\ \A other \in DOMAIN sessions \ {user.id} : sessions'[other] = sessions[other]
           /\ after.username = ProfileAfter(user.username, before.username)
           /\ after.firstName = ProfileAfter(user.first_name, before.firstName)
           /\ after.lastName = ProfileAfter(user.last_name, before.lastName)
           /\ after.languageCode = ProfileAfter(user.language_code, before.languageCode)
           /\ after.userId = before.userId
           /\ after.walletAddress = before.walletAddress
           /\ after.lastColor = before.lastColor
           /\ after.lastMint = before.lastMint
           /\ after.totalMints = before.totalMints
           /\ after.createdAt = before.createdAt
           /\ after.lastInteractionAt \in {JsString(now) : now \in ClockReadings}
           /\ after.updatedAt = after.lastInteractionAt

OwedWarnings(info) ==
    (IF info.balance < RequiredBalance THEN <<"balance">> ELSE <<>>)
    \o (IF (IF info.state = "absent" THEN "unknown" ELSE info.state)
               \notin {"active", "uninitialized"}
        THEN <<"state">> ELSE <<>>)

\* the gate of call k has its answer, with wallet information
GateAnsweredStep(k) ==
    (~QueryAnswered(k) /\ QueryAnswered(k)' /\ tasks'[k].info.ok)
    => /\ tasks'[k].precheck.ok
       /\ tasks'[k].precheck.error = JsUndefined
       /\ tasks'[k].precheck.warnings = OwedWarnings(tasks'[k].info)
       /\ normalizeHexColor(requests[k].color).ok => tasks'[k].pc = "running"

\* C33: the gate warns of the balance exactly when the balance is below the
\* mint value plus the larger of its tenth and the floor of 0.02 TON, and of
\* the state exactly when it is neither active nor uninitialized; it returns
\* the list, with one entry for each condition that holds, and does not throw
C33_WarningsExactlyWhenOwed == [][\A k \in Calls : GateAnsweredStep(k)]_vars

\* the gate warned of both conditions and the process was spawned
C33_Witness ==
    \E k \in Calls :
        /\ QueryAnswered(k)
        /\ tasks[k].info.ok
        /\ tasks[k].info.balance < RequiredBalance
        /\ tasks[k].info.state \notin {"active", "uninitialized"}
        /\ tasks[k].precheck.warnings = <<"balance", "state">>
        /\ children[k].spawned


\* ---------------------------------------------------------------------------
\* C34: the fallback encodings of formatWalletAddress

\* the encodings, in the order of the claim, that the address object accepts
AcceptedEncodings(address) ==
    {i \in DOMAIN Encodings : ~ToStringThrows(address, Encodings[i])}

IsAddressFormatError(e) ==
    /\ e.code = "MINTER_WALLET_ADDRESS_FORMAT"
    /\ e.statusCode = 500

\* the task of call k has got the wallet's address, which is no string
AddressFormattedStep(k) ==
    (/\ tasks[k].pc = "wallet"
     /\ tasks'[k].pc # "wallet"
     /\ tasks'[k].address \in AddressKinds \ {"string"})
    => LET address == tasks'[k].address
           accepted == AcceptedEncodings(address)
           first == CHOOSE i \in accepted : \A j \in accepted : i <= j
       IN  IF accepted # {}
           THEN /\ tasks'[k].wallet.ok
                /\ tasks'[k].wallet.value.encoding = Encodings[first]
                /\ tasks'[k].wallet.tried = SubSeq(Encodings, 1, first)
                /\ tasks'[k].pc = "rpc"
                /\ rpcOrder' = Append(rpcOrder, k)
           ELSE /\ ~tasks'[k].wallet.ok
                /\ IsAddressFormatError(tasks'[k].wallet.error)
                /\ address # "noToString" => tasks'[k].wallet.tried = Encodings
                /\ tasks'[k].pc = "done"
                /\ Rejected(k)'
                /\ PromiseValue(callers[k])' = tasks'[k].wallet.error
                /\ rpcOrder' = rpcOrder
                /\ spawnOrder' = spawnOrder

\* a call whose address could not be formatted has sent no query and has no process
NoQueryAfterFormatError ==
    \A k \in Calls :
        (tasks[k].wallet # JsUndefined /\ ~tasks[k].wallet.ok)
        => /\ \A i \in DOMAIN rpcOrder : rpcOrder[i] # k
           /\ \A i \in DOMAIN spawnOrder : spawnOrder[i] # k
           /\ ~children[k].spawned
           /\ tasks[k].info = JsUndefined

\* C34: formatWalletAddress asks the address object for the options-object
\* encoding, then the positional one, then the bare default, and returns the
\* first that does not throw, having tried none after it; it fails, with the
\* address-format error of statusCode 500, only when none of the three can
\* be had, and the mint then rejects with that error without an RPC query or
\* a spawned process, then or later
C34_FirstEncodingThatWorks ==
    /\ [][\A k \in Calls : AddressFormattedStep(k)]_vars
    /\ []NoQueryAfterFormatError

\* an address that refuses the options object and takes the positional
\* arguments was formatted by the second call and the query was sent
C34_Witness ==
    \E k \in Calls :
        /\ tasks[k].address = "positionalOk"
        /\ tasks[k].wallet.ok
        /\ tasks[k].wallet.tried = <<"options", "positional">>
        /\ tasks[k].wallet.value.encoding = "positional"
        /\ rpcOrder = <<k>>


\* ---------------------------------------------------------------------------
\* C35: the exit status comes before the output

\* the process of call k closes with a code other than 0, or by a signal
AbnormalCloseStep(k) ==
    (Closes(k) /\ children'[k].exit.code # JsNumber(0))
    => /\ Rejected(k)'
       /\ ~Fulfilled(k)'
       /\ tasks'[k].settled = "rejected"
       /\ PromiseValue(callers[k])'.message = "Mint script exited abnormally"
       /\ PromiseValue(callers[k])'.code
              = (IF children'[k].exit.code = JsNull THEN "signal" ELSE "code")
       /\ ~parseMintResult(children[k].stdout).ok
              => PromiseValue(callers[k])'.message
                     # parseMintResult(children[k].stdout).message

\* C35: when the process closes with a non-zero code or by a signal the mint
\* rejects with the abnormal-exit error, naming the code or the signal,
\* whatever stdout holds: a well-formed MINT_RESULT line does not make it
\* resolve, and a missing or malformed one does not turn the error into the
\* parser's
C35_ExitStatusFirst == [][\A k \in Calls : AbnormalCloseStep(k)]_vars

\* a process that had written a well-formed result line was ended by a
\* signal, and the mint rejected with the abnormal-exit error
C35_Witness ==
    \E k \in Calls :
        /\ children[k].closed
        /\ children[k].exit.code = JsNull
        /\ Rejected(k)
        /\ PromiseValue(callers[k]).message = "Mint script exited abnormally"
        /\ HasNumericResult(PromiseValue(callers[k]).stdout)


\* ---------------------------------------------------------------------------
\* C36 to C38: the outcome of a mint of the bot

\* the user of mint m has sent no update since the one that asked for it
NoLaterUpdate(m) ==
    \A u \in (mints[m].update + 1)..Len(updates) :
        updates[u].from.id # mints[m].request.telegramUserId

\* nothing has written the session of the user of mint m since the request
\* wrote its wallet and colour: no later update of the user, no mint recorded
WrittenLastByRequest(m) ==
    LET userId == mints[m].request.telegramUserId
        calls == {i \in DOMAIN storeCalls : storeCalls[i].userId = userId}
        last == CHOOSE i \in calls : \A j \in calls : j <= i
    IN  /\ NoLaterUpdate(m)
        /\ calls # {}
        /\ storeCalls[last].op = "setLastColor"

\* the mint handler has rejected for mint m
HandlerRejectedStep(m) ==
    (mints[m].pc = "minting" /\ mints'[m].pc = "failed")
    => LET userId == mints[m].request.telegramUserId
       IN  /\ storeCalls' = storeCalls
           /\ sessions'[userId].totalMints = sessions[userId].totalMints
           /\ sessions'[userId].lastMint = sessions[userId].lastMint
           /\ sessions'[userId].walletAddress = sessions[userId].walletAddress
           /\ sessions'[userId].lastColor = sessions[userId].lastColor
           /\ WrittenLastByRequest(m) =>
                 /\ sessions'[userId].walletAddress = mints[m].request.walletAddress
                 /\ sessions'[userId].lastColor = mints[m].request.color
           /\ sent' = Append(sent, sent'[Len(sent')])
           /\ sent'[Len(sent')].text = "Mint failed"
           /\ sent'[Len(sent')].chat = mints[m].chat

\* C36: when the mint handler rejects, the store is not called: totalMints
\* and lastMint of the user are as before, one 'Mint failed' message goes to
\* the chat, and the session keeps its wallet and last colour, which are the
\* ones of the request unless the user has sent another update, or another
\* mint of the user has been recorded, since
C36_RejectedMintNotRecorded ==
    [][\A m \in DOMAIN mints : HandlerRejectedStep(m)]_vars

\* the only mint of a user failed: nothing is recorded, the wallet and the
\* colour of the request are in the session
C36_Witness ==
    \E m \in DOMAIN mints :
        LET userId == mints[m].request.telegramUserId
        IN  /\ mints[m].pc = "failed"
            /\ sessions[userId].totalMints = 0
            /\ sessions[userId].lastMint = JsNull
            /\ sessions[userId].walletAddress = mints[m].request.walletAddress
            /\ sessions[userId].lastColor = mints[m].request.color
            /\ \E i \in DOMAIN sent :
                  sent[i].update = mints[m].update /\ sent[i].text = "Mint failed"


\* the messages sent for the update of mint m with one of the given texts
MessagesOf(m, texts) ==
    {i \in DOMAIN sent : sent[i].update = mints[m].update /\ sent[i].text \in texts}

TerminalTexts == {"Mint successful!", "Mint failed"}

\* the messages of every mint, by how far it has got: the acknowledgement
\* from the start, no terminal message until the handler has settled, then
\* the one for its outcome and not the other
MintMessagesInOrder ==
    \A m \in DOMAIN mints :
        /\ Cardinality(MessagesOf(m, {DEFAULT_ACK_MESSAGE})) = 1
        /\ \A a \in MessagesOf(m, {DEFAULT_ACK_MESSAGE}), t \in MessagesOf(m, TerminalTexts) :
              a < t
        /\ mints[m].pc \in {"acknowledging", "minting"} => MessagesOf(m, TerminalTexts) = {}
        /\ mints[m].pc = "minted" =>
              /\ Cardinality(MessagesOf(m, {"Mint successful!"})) = 1
              /\ MessagesOf(m, {"Mint failed"}) = {}
        /\ mints[m].pc = "failed" =>
              /\ Cardinality(MessagesOf(m, {"Mint failed"})) = 1
              /\ MessagesOf(m, {"Mint successful!"}) = {}
        /\ Cardinality({c \in DOMAIN handlerCalls : handlerCalls[c].mint = m})
              = (IF mints[m].pc = "acknowledging" THEN 0 ELSE 1)

\* the handler is called for a mint whose acknowledgement has been sent, and
\* a terminal message is sent in the step in which the handler settles
MintMessageStep ==
    /\ handlerCalls' # handlerCalls =>
          MessagesOf(handlerCalls'[Len(handlerCalls')].mint, {DEFAULT_ACK_MESSAGE}) # {}
    /\ \A m \in DOMAIN mints :
          (MessagesOf(m, TerminalTexts)' # MessagesOf(m, TerminalTexts))
          => /\ mints[m].pc = "minting"
             /\ mints'[m].pc \in {"minted", "failed"}
             /\ (mints'[m].pc = "minted") = (mints'[m].result.type = "object")

\* C37: for every mint request that passes validation the acknowledgement is
\* sent, once, before the mint handler is called, once; no terminal message
\* is sent before the handler settles, and when it has settled exactly one
\* is: 'Mint successful' if it resolved with its result, 'Mint failed' if it
\* rejected, and never both
C37_AckThenOneTerminalMessage == []MintMessagesInOrder /\ [][MintMessageStep]_vars

\* two mints, one resolved and one rejected, each with its acknowledgement
\* and its one terminal message
C37_Witness ==
    \E m, n \in DOMAIN mints :
        /\ mints[m].pc = "minted"
        /\ mints[n].pc = "failed"
        /\ MessagesOf(m, {"Mint successful!"}) # {}
        /\ MessagesOf(n, {"Mint failed"}) # {}


\* the mints of the user the handler has resolved
ResolvedMints(userId) ==
    {m \in DOMAIN mints : mints[m].request.telegramUserId = userId /\ mints[m].pc = "minted"}

\* the place in sent of the success message of a resolved mint
CompletedAt(m) == CHOOSE i \in MessagesOf(m, {"Mint successful!"}) : TRUE

OrNull(v) == IF v = JsUndefined THEN JsNull ELSE v

\* the summary recordMint owes the mint: the fields of the result, the colour
\* and the owner of the request where the result has none, the handler's
\* time or else the clock's
OwedMintSummary(m) ==
    LET result == mints[m].result
        request == mints[m].request
        given(field) == IF field \in DOMAIN result THEN result[field] ELSE JsUndefined
    IN  [itemIndex |-> OrNull(given("itemIndex")),
         metadataUri |-> OrNull(given("metadataUri")),
         nftAddress |-> OrNull(given("nftAddress")),
         color |-> IF given("color") = JsUndefined THEN request.color ELSE given("color"),
         ownerAddress |-> IF given("ownerAddress") = JsUndefined THEN request.walletAddress
                          ELSE given("ownerAddress"),
         mintedAt |-> IF given("mintedAt") = JsUndefined THEN sent[CompletedAt(m)].value
                      ELSE given("mintedAt"),
         timestamp |-> IF given("mintedAt") = JsUndefined THEN sent[CompletedAt(m)].value
                       ELSE given("mintedAt"),
         source |-> request.source]

\* C38: whatever the order in which the updates of a user are handled and
\* their mints settle, the user's totalMints is the number of the user's
\* mints that resolved, and lastMint is the summary of the one that
\* completed last (null while none has)
C38_NoLostSessionUpdate ==
    \A userId \in DOMAIN sessions :
        LET resolved == ResolvedMints(userId)
        IN  /\ sessions[userId].totalMints = Cardinality(resolved)
            /\ IF resolved = {} THEN sessions[userId].lastMint = JsNull
               ELSE LET last == CHOOSE m \in resolved :
                                    \A n \in resolved : CompletedAt(n) <= CompletedAt(m)
                    IN  sessions[userId].lastMint = OwedMintSummary(last)

\* two mints of one user were in flight together and the one asked for
\* second completed first: both are counted, lastMint is the first one's
C38_Witness ==
    \E m, n \in DOMAIN mints :
        /\ m < n
        /\ mints[m].request.telegramUserId = mints[n].request.telegramUserId
        /\ mints[m].pc = "minted"
        /\ mints[n].pc = "minted"
        /\ CompletedAt(n) < CompletedAt(m)
        /\ mints[m].request.color # mints[n].request.color
        /\ sessions[mints[m].request.telegramUserId].totalMints = 2
        /\ sessions[mints[m].request.telegramUserId].lastMint = OwedMintSummary(m)


\* C32: when a webhook secret is configured, a request whose secret-token
\* header is missing or differs from it is answered 401 and its update is not
\* handled: the step leaves the sessions, the store, the sent messages, the
\* mints, the calls of the mint handler and the mint queue as they were; and
\* every update that was handled, and so every mint, came with the secret
SecretConfigured ==
    config.telegramSecretToken.type = "string" /\ config.telegramSecretToken.s # <<>>

WrongHeader(header) == header # config.telegramSecretToken

WebhookRequestStep ==
    (Len(http') = Len(http) + 1 /\ SecretConfigured /\ WrongHeader(http'[Len(http')].header))
        => /\ http'[Len(http')].status = 401
           /\ http'[Len(http')].ok = FALSE
           /\ UNCHANGED <<sessions, storeCalls, updates, sent, mints, handlerCalls>>
           /\ UNCHANGED <<requests, mintQueue>>

RejectedStaysRejected ==
    \A i \in DOMAIN http :
        http[i].status = 401 => /\ i \in DOMAIN http'
                                /\ http'[i] = http[i]

HandledWithSecret ==
    SecretConfigured =>
        /\ Len(updates) = Cardinality({i \in DOMAIN http : ~WrongHeader(http[i].header)})
        /\ \A i \in DOMAIN http : WrongHeader(http[i].header) => http[i].status = 401
        /\ \A m \in DOMAIN mints : \E i \in DOMAIN http :
              /\ http[i].update = mints[m].update
              /\ ~WrongHeader(http[i].header)

C32_WrongSecretNotHandled ==
    []HandledWithSecret /\ [][WebhookRequestStep /\ RejectedStaysRejected]_vars

\* a request with a wrong header was answered 401 after a request with the
\* secret had created a session and requested a mint
C32_Witness ==
    /\ SecretConfigured
    /\ Len(http) = 2
    /\ sessions # <<>>
    /\ Len(mints) = 1
    /\ http[1].status # 401
    /\ http[2].status = 401 /\ http[2].header = JsString(OtherToken)

\* the promise returned to the caller of call k is resolved or rejected
CallerSettled(k) == IF k \in Calls THEN Settled(callers[k]) ELSE FALSE

\* C39: when every address-info query returns or fails and every spawned
\* deploy process emits close, the task of every call is eventually started
\* and the promise returned to its caller eventually settles, whatever the
\* number of calls that wait in the queue
C39_EveryRequestStartsAndSettles ==
    \A k \in 1..MaxRequests :
        /\ (k \in Calls) ~> TaskStarted(k)
        /\ (k \in Calls) ~> CallerSettled(k)

\* C39 witness: the last call, made while the task of the first had not yet
\* ended, was started and settled after earlier calls had been rejected and
\* resolved
C39_Witness ==
    /\ Len(requests) = MaxRequests
    /\ \A k \in Calls : CallerSettled(k)
    /\ \E k \in Calls : Rejected(k)
    /\ \E k \in Calls : Fulfilled(k)
    /\ startOrder = [k \in 1..MaxRequests |-> k]
====
